---------------------------- MODULE Spec2Model ----------------------------
(***************************************************************************)
(* diff-ai: the diff-to-score pipeline.                                    *)
(*                                                                         *)
(*   diff_ai/scoring_backend.py   score_rule_hits and its helpers          *)
(*   diff_ai/diff_parser.py       parse_unified_diff and its helpers       *)
(*                                                                         *)
(* Conventions.                                                            *)
(*  - A Python str is a sequence of Unicode code points (naturals), so     *)
(*    that strip, lower, startswith, slicing, concatenation and the        *)
(*    lexicographic order of strings are computed, not assumed.            *)
(*  - A Python float is an exact rational <<n, d>> with d > 0 in lowest    *)
(*    terms: IEEE-754 rounding is not modelled.                            *)
(*  - An Optional[T] is <<>> (None) or <<v>>.                              *)
(*  - math.exp cannot be computed over the integers. The value             *)
(*    100 * (1 - exp(-q)) is carried by its exponent q (the map is a       *)
(*    strictly increasing bijection of the reals onto (-oo, 100)), and     *)
(*    its rounding to an integer by a table of the 100 break points.       *)
(***************************************************************************)
EXTENDS Integers, Sequences, FiniteSets, TLC

(***************************************************************************)
(* Bounds of the model.                                                    *)
(***************************************************************************)
\* Longest list of RuleHits handed to score_rule_hits by the free generator.
MaxHits == 3
\* Longest diff text, in lines, handed to parse_unified_diff.
MaxLines == 4

(***************************************************************************)
(* Python values.                                                          *)
(***************************************************************************)
None == << >>

Some(v) == << v >>

IsNone(o) == o = << >>

\* o if o is not None else dflt
OrElse(o, dflt) == IF o = << >> THEN dflt ELSE o[1]

Min2(a, b) == IF a <= b THEN a ELSE b

Max2(a, b) == IF a >= b THEN a ELSE b

Abs(n) == IF n < 0 THEN -n ELSE n

RECURSIVE GCD(_, _)
GCD(a, b) == IF b = 0 THEN a ELSE GCD(b, a % b)

(***************************************************************************)
(* Exact rationals standing for floats.                                    *)
(***************************************************************************)
Rat(n, d) ==
    LET s == IF d < 0 THEN -1 ELSE 1
        g == GCD(Abs(n), Abs(d))
    IN  << (s * n) \div g, (s * d) \div g >>

Float(i) == << i, 1 >>

RAdd(a, b) == Rat(a[1] * b[2] + b[1] * a[2], a[2] * b[2])

RMul(a, b) == Rat(a[1] * b[1], a[2] * b[2])

RDiv(a, b) == Rat(a[1] * b[2], a[2] * b[1])

RNeg(a) == << -a[1], a[2] >>

RAbs(a) == << Abs(a[1]), a[2] >>

RLt(a, b) == a[1] * b[2] < b[1] * a[2]

RLe(a, b) == a[1] * b[2] <= b[1] * a[2]

RMin(a, b) == IF RLe(a, b) THEN a ELSE b

RMax(a, b) == IF RLe(a, b) THEN b ELSE a

\* floor of a rational
RFloor(a) == a[1] \div a[2]

\* Python's round() of a float to an int: to nearest, ties to even.
PyRound(a) ==
    LET f == RFloor(a)
        r == a[1] - f * a[2]
    IN  IF 2 * r < a[2] THEN f
        ELSE IF 2 * r > a[2] THEN f + 1
        ELSE IF f % 2 = 0 THEN f ELSE f + 1

(***************************************************************************)
(* Python strings as code point sequences.                                 *)
(***************************************************************************)
\* str.isspace() for the characters the model uses: TAB LF VT FF CR FS GS
\* RS US SPACE.
IsSpace(c) == c \in {9, 10, 11, 12, 13, 28, 29, 30, 31, 32}

RECURSIVE LStrip(_)
LStrip(s) ==
    IF s # << >> /\ IsSpace(Head(s)) THEN LStrip(Tail(s)) ELSE s

RECURSIVE RStrip(_)
RStrip(s) ==
    IF s # << >> /\ IsSpace(s[Len(s)])
    THEN RStrip(SubSeq(s, 1, Len(s) - 1))
    ELSE s

\* str.strip()
Strip(s) == RStrip(LStrip(s))

\* str.lower() on ASCII
Lower(s) == [i \in 1..Len(s) |-> IF s[i] \in 65..90 THEN s[i] + 32 ELSE s[i]]

\* str.startswith(p)
StartsWith(s, p) == Len(s) >= Len(p) /\ SubSeq(s, 1, Len(p)) = p

\* s[k:] for k >= 0
Drop(s, k) == SubSeq(s, k + 1, Len(s))

\* the order of Python strings: lexicographic by code point
RECURSIVE StrLt(_, _)
StrLt(a, b) ==
    IF b = << >> THEN FALSE
    ELSE IF a = << >> THEN TRUE
    ELSE IF a[1] # b[1] THEN a[1] < b[1]
    ELSE StrLt(Tail(a), Tail(b))

RECURSIVE Digits(_)
Digits(n) ==
    IF n < 10 THEN << 48 + n >> ELSE Digits(n \div 10) \o << 48 + (n % 10) >>

\* str(n) for an int
IntToStr(n) == IF n < 0 THEN << 45 >> \o Digits(-n) ELSE Digits(n)

\* ", ".join(bits)
RECURSIVE JoinComma(_)
JoinComma(bits) ==
    IF bits = << >> THEN << >>
    ELSE IF Len(bits) = 1 THEN bits[1]
    ELSE bits[1] \o << 44, 32 >> \o JoinComma(Tail(bits))

\* String literals of the source.
S_logic == << 108, 111, 103, 105, 99 >>

S_security == << 115, 101, 99, 117, 114, 105, 116, 121 >>

S_integration == << 105, 110, 116, 101, 103, 114, 97, 116, 105, 111, 110 >>

S_test_adequacy ==
    << 116, 101, 115, 116, 95, 97, 100, 101, 113, 117, 97, 99, 121 >>

S_style == << 115, 116, 121, 108, 101 >>

S_performance == << 112, 101, 114, 102, 111, 114, 109, 97, 110, 99, 101 >>

S_unknown == << 117, 110, 107, 110, 111, 119, 110 >>

S_quality == << 113, 117, 97, 108, 105, 116, 121 >>

S_profile == << 112, 114, 111, 102, 105, 108, 101 >>

S_magnitude == << 109, 97, 103, 110, 105, 116, 117, 100, 101 >>

\* "hunk "
S_hunk_sp == << 104, 117, 110, 107, 32 >>

(***************************************************************************)
(* diff_ai/scoring_backend.py: the parameter tables.                       *)
(***************************************************************************)
\* Mutant: the cap of "logic" is 60 instead of 30.
DEFAULT_CATEGORY_CAPS_LooseLogic ==
    (S_logic :> 60) @@ (S_security :> 35) @@ (S_integration :> 35)
    @@ (S_test_adequacy :> 25) @@ (S_style :> 15) @@ (S_performance :> 25)
    @@ (S_unknown :> 20)

DEFAULT_CATEGORY_CAPS ==
    (S_logic :> 30) @@ (S_security :> 35) @@ (S_integration :> 35)
    @@ (S_test_adequacy :> 25) @@ (S_style :> 15) @@ (S_performance :> 25)
    @@ (S_unknown :> 20)

\* 1.2, 1.4, 1.15, 1.2, 0.65, 1.0, 0.85
DEFAULT_CATEGORY_WEIGHTS ==
    (S_logic :> Rat(120, 100)) @@ (S_security :> Rat(140, 100))
    @@ (S_integration :> Rat(115, 100)) @@ (S_test_adequacy :> Rat(120, 100))
    @@ (S_style :> Rat(65, 100)) @@ (S_performance :> Rat(100, 100))
    @@ (S_unknown :> Rat(85, 100))

DEFAULT_RULE_CAPS == (S_magnitude :> Float(20))

CATEGORY_ALIASES == (S_quality :> S_style) @@ (S_profile :> S_integration)

DEFAULT_SCALE == Float(36)

\* dict.get(key, dflt)
Get(table, key, dflt) == IF key \in DOMAIN table THEN table[key] ELSE dflt

\* class RuleHit
RuleHit(id, category, points, scope, file_path, hunk_id, message) ==
    [id |-> id, category |-> category, points |-> points, scope |-> scope,
     file_path |-> file_path, hunk_id |-> hunk_id, message |-> message,
     evidence |-> None]

\* Mutant: the label is neither stripped nor lower-cased.
normalize_category_Verbatim(category, categories) ==
    LET normalized == Get(CATEGORY_ALIASES, category, category)
    IN  IF normalized \in DOMAIN categories THEN normalized ELSE S_unknown

(***************************************************************************)
(* normalize_category                                                      *)
(***************************************************************************)
normalize_category(category, categories) ==
    LET allowed_categories ==
            IF DOMAIN categories = {} THEN DEFAULT_CATEGORY_CAPS
            ELSE categories
        stripped == IF category # << >> THEN Lower(Strip(category)) ELSE << >>
        normalized == Get(CATEGORY_ALIASES, stripped, stripped)
    IN  IF normalized \in DOMAIN allowed_categories THEN normalized
        ELSE S_unknown

(***************************************************************************)
(* _rule_scale_factor and _adjusted_points_by_hit                          *)
(***************************************************************************)
\* Mutant: the early return for a total within the cap is missing.
rule_scale_factor_AlwaysScales(points_total, cap) ==
    IF cap = None \/ RLe(cap[1], Float(0)) \/ points_total = 0 THEN Float(1)
    ELSE RDiv(cap[1], RAbs(Float(points_total)))

\* Mutant: a rule over its cap is damped by the square of cap / total.
rule_scale_factor_Squared(points_total, cap) ==
    IF cap = None \/ RLe(cap[1], Float(0)) \/ points_total = 0 THEN Float(1)
    ELSE IF RLe(RAbs(Float(points_total)), cap[1]) THEN Float(1)
    ELSE RMul(RDiv(cap[1], RAbs(Float(points_total))),
              RDiv(cap[1], RAbs(Float(points_total))))

\* cap is Optional[float]
rule_scale_factor(points_total, cap) ==
    IF cap = None \/ RLe(cap[1], Float(0)) \/ points_total = 0 THEN Float(1)
    ELSE IF RLe(RAbs(Float(points_total)), cap[1]) THEN Float(1)
    ELSE RDiv(cap[1], RAbs(Float(points_total)))

\* sum(entry.points for entries of rule_id), over hits[1..n]
RECURSIVE RulePointsTotal(_, _, _)
RulePointsTotal(hits, rule_id, n) ==
    IF n = 0 THEN 0
    ELSE RulePointsTotal(hits, rule_id, n - 1)
         + (IF hits[n].id = rule_id THEN hits[n].points ELSE 0)

\* index -> adjusted points (the dict keyed by hit index)
adjusted_points_by_hit(hits, rule_caps) ==
    [index \in 1..Len(hits) |->
        LET rule_id == hits[index].id
            cap == IF rule_id \in DOMAIN rule_caps
                   THEN Some(rule_caps[rule_id]) ELSE None
            points_total == RulePointsTotal(hits, rule_id, Len(hits))
            factor == rule_scale_factor(points_total, cap)
        IN  RMul(Float(hits[index].points), factor)]

(***************************************************************************)
(* _build_top_reasons                                                      *)
(***************************************************************************)
\* The sort key of a ranked item.
SortKey(hit, contribution, adjusted_points) ==
    << contribution, RAbs(adjusted_points), hit.id,
       IF hit.file_path = None \/ hit.file_path = Some(<< >>) THEN << >>
       ELSE hit.file_path[1],
       OrElse(hit.hunk_id, -1) >>

\* tuple comparison k1 < k2
KeyLt(k1, k2) ==
    IF k1[1] # k2[1] THEN RLt(k1[1], k2[1])
    ELSE IF k1[2] # k2[2] THEN RLt(k1[2], k2[2])
    ELSE IF k1[3] # k2[3] THEN StrLt(k1[3], k2[3])
    ELSE IF k1[4] # k2[4] THEN StrLt(k1[4], k2[4])
    ELSE k1[5] < k2[5]

\* Mutant: reverse=True is missing, the sort is ascending.
RECURSIVE InsertDesc_Ascending(_, _, _)
InsertDesc_Ascending(sorted, item, key) ==
    IF sorted = << >> THEN << item >>
    ELSE IF KeyLt(key[item], key[Head(sorted)]) THEN << item >> \o sorted
    ELSE << Head(sorted) >> \o InsertDesc_Ascending(Tail(sorted), item, key)

\* list.sort(key=..., reverse=True) is stable: an item goes before the first
\* item of strictly smaller key, after every item of equal key.
RECURSIVE InsertDesc(_, _, _)
InsertDesc(sorted, item, key) ==
    IF sorted = << >> THEN << item >>
    ELSE IF KeyLt(key[Head(sorted)], key[item]) THEN << item >> \o sorted
    ELSE << Head(sorted) >> \o InsertDesc(Tail(sorted), item, key)

RECURSIVE SortDesc(_, _)
SortDesc(items, key) ==
    IF items = << >> THEN << >>
    ELSE InsertDesc(SortDesc(SubSeq(items, 1, Len(items) - 1), key),
                    items[Len(items)], key)

\* the format string of one reason
RenderReason(hit, category, adjusted_points) ==
    LET scope_bits ==
            (IF hit.file_path # None /\ hit.file_path # Some(<< >>)
             THEN << hit.file_path[1] >> ELSE << >>)
            \o (IF hit.hunk_id # None
                THEN << S_hunk_sp \o IntToStr(hit.hunk_id[1]) >> ELSE << >>)
        scope_text ==
            IF scope_bits # << >>
            THEN << 32, 40 >> \o JoinComma(scope_bits) \o << 41 >>
            ELSE << >>
        rounded_points == PyRound(adjusted_points)
        signed_points ==
            IF rounded_points >= 0 THEN << 43 >> \o IntToStr(rounded_points)
            ELSE IntToStr(rounded_points)
    IN  << 91 >> \o hit.id \o << 93, 32 >> \o signed_points \o << 32, 91 >>
        \o category \o << 93, 32 >> \o hit.message \o scope_text

\* weights.get(category, weights["unknown"]) * adjusted_points
Contribution(weights, category, adjusted_points) ==
    RMul(Get(weights, category, weights[S_unknown]), adjusted_points)

\* The indices of the hits that source[:top_n] holds, in order.
RankedTop(hits, cats, adjusted, weights, top_n) ==
    LET contribution ==
            [i \in 1..Len(hits) |-> Contribution(weights, cats[i], adjusted[i])]
        key == [i \in 1..Len(hits) |->
                    SortKey(hits[i], contribution[i], adjusted[i])]
        ranked == [i \in 1..Len(hits) |-> i]
        positives == SelectSeq(ranked, LAMBDA i : RLt(Float(0), contribution[i]))
        source == IF positives # << >> THEN positives ELSE ranked
        sorted == SortDesc(source, key)
    IN  SubSeq(sorted, 1, Min2(Max2(top_n, 0), Len(sorted)))

build_top_reasons(hits, cats, adjusted, weights, top_n) ==
    IF top_n <= 0 THEN << >>
    ELSE LET top == RankedTop(hits, cats, adjusted, weights, top_n)
         IN  [j \in 1..Len(top) |->
                 RenderReason(hits[top[j]], cats[top[j]], adjusted[top[j]])]

(***************************************************************************)
(* The diminishing-returns transform.                                      *)
(*                                                                         *)
(* transformed_score = 100 * (1 - exp(-q)) with q = overall_raw / scale is *)
(* carried by q.  It is below 0 iff q < 0, it is 0 iff q = 0, and it is    *)
(* at least k - 0.5 iff q >= -ln(1 - (2k - 1) / 200).                      *)
(***************************************************************************)
\* ceil(-ln(1 - (2k - 1) / 200) * 10^8) for k = 1 .. 100
ROUND_BREAKS ==
    << 501255, 1511364, 2531781, 3562718, 4604394, 5657036, 6720875,
       7796155, 8883122, 9982034, 11093157, 12216764, 13353140, 14502578,
       15665382, 16841866, 18032356, 19237190, 20456717, 21691301, 22941317,
       24207157, 25489225, 26787945, 28103753, 29437107, 30788478, 32158363,
       33547274, 34955748, 36384344, 37833645, 39304259, 40796824, 42312005,
       43850497, 45413029, 47000363, 48613302, 50252683, 51919388, 53614344,
       55338524, 57092955, 58878717, 60696949, 62548854, 64435702, 66358838,
       68319685, 70319752, 72360639, 74444048, 76571788, 78745787, 80968100,
       83240925, 85566612, 87947676, 90386822, 92886952, 95451195, 98082926,
       100785793, 103563749, 106421087, 109362475, 112393010, 115518265,
       118744351, 122077993, 125526610, 129098419, 132802546, 136649174,
       140649707, 144816977, 149165488, 153711726, 158474530, 163475573,
       168739946, 174296931, 180180981, 186433017, 193102154, 200248051,
       207944155, 216282316, 225379493, 235387839, 246510403, 259026717,
       273336801, 290042210, 310109279, 335240722, 368887946, 419970508,
       529831737 >>

RECURSIVE Pow10(_)
Pow10(k) == IF k = 0 THEN 1 ELSE 10 * Pow10(k - 1)

\* floor(r / d * 10^k) for 0 <= r < d, by long division
RECURSIVE FracDigits(_, _, _)
FracDigits(r, d, k) ==
    IF k = 0 THEN 0
    ELSE ((10 * r) \div d) * Pow10(k - 1) + FracDigits((10 * r) % d, d, k - 1)

\* floor(min(q, 6) * 10^8) for a rational q >= 0 (every break point is < 6)
Floor8(q) ==
    IF RFloor(q) >= 6 THEN 6 * Pow10(8)
    ELSE RFloor(q) * Pow10(8) + FracDigits(q[1] % q[2], q[2], 8)

\* math.exp(x) raises OverflowError above ln(DBL_MAX) = 709.7827...
ExpOverflows(x) ==
    \/ RFloor(x) >= 710
    \/ RFloor(x) = 709 /\ FracDigits(x[1] % x[2], x[2], 4) >= 7828

\* int(round(_clamp(100 * (1 - exp(-q)), lower=0.0, upper=100.0))): below
\* q = 0 the value is negative and _clamp returns lower; from 0 on it is in
\* [0, 100) and rounds to the number of break points it has passed.
FinalScore(q) ==
    IF RLt(q, Float(0)) THEN 0
    ELSE LET f == Floor8(q)
         IN  Cardinality({k \in 1..100 : f >= ROUND_BREAKS[k]})

(***************************************************************************)
(* score_rule_hits                                                         *)
(***************************************************************************)
\* sum over a set of categories of f[c]
RECURSIVE SumOver(_, _)
SumOver(S, f) ==
    IF S = {} THEN Float(0)
    ELSE LET c == CHOOSE x \in S : TRUE
         IN  RAdd(f[c], SumOver(S \ {c}, f))

\* sum of the ints v[i] over the indices i <= n whose category is c
RECURSIVE SumCatInt(_, _, _, _)
SumCatInt(v, cats, c, n) ==
    IF n = 0 THEN 0
    ELSE SumCatInt(v, cats, c, n - 1) + (IF cats[n] = c THEN v[n] ELSE 0)

\* sum of the floats v[i] over the indices i <= n whose category is c
RECURSIVE SumCatFloat(_, _, _, _)
SumCatFloat(v, cats, c, n) ==
    IF n = 0 THEN Float(0)
    ELSE IF cats[n] = c THEN RAdd(SumCatFloat(v, cats, c, n - 1), v[n])
    ELSE SumCatFloat(v, cats, c, n - 1)

RECURSIVE SumPoints(_, _)
SumPoints(hits, n) ==
    IF n = 0 THEN 0 ELSE SumPoints(hits, n - 1) + hits[n].points

\* caps if given, else DEFAULT_CATEGORY_CAPS; "unknown" injected when absent
ActiveCaps(a) ==
    LET given == IF a.caps = None THEN DEFAULT_CATEGORY_CAPS ELSE a.caps[1]
    IN  IF S_unknown \in DOMAIN given THEN given
        ELSE given @@ (S_unknown :> DEFAULT_CATEGORY_CAPS[S_unknown])

ActiveWeights(a) ==
    LET given == IF a.weights = None THEN DEFAULT_CATEGORY_WEIGHTS
                 ELSE a.weights[1]
    IN  IF S_unknown \in DOMAIN given THEN given
        ELSE given @@ (S_unknown :> DEFAULT_CATEGORY_WEIGHTS[S_unknown])

ActiveRuleCaps(a) ==
    IF a.rule_caps = None THEN DEFAULT_RULE_CAPS ELSE a.rule_caps[1]

\* the categories of the hits, normalized against the active caps
NormalizedCategories(hits, active_caps) ==
    [i \in 1..Len(hits) |-> normalize_category(hits[i].category, active_caps)]

Raised(error) == [raised |-> error, value |-> None]

Returned(v) == [raised |-> "", value |-> Some(v)]

\* Mutant: the category total is not clamped to its cap.
CapCategory_Unclamped(scored_points, cap) == scored_points

\* min(scored_points_by_category[category], float(active_caps[category]))
CapCategory(scored_points, cap) == RMin(scored_points, Float(cap))

\* Mutant: a negative weighted total is raised to 0 before the transform.
TransformExponent_Clamped(overall_raw, scale) ==
    RMax(Float(0), RDiv(overall_raw, scale))

\* the argument of the transform: overall_raw / scale
TransformExponent(overall_raw, scale) == RDiv(overall_raw, scale)

\* a is the record of keyword arguments: caps, weights, rule_caps (each an
\* Optional table), scale (a float) and top_n (an int).
score_rule_hits(hits, a) ==
    IF RLe(a.scale, Float(0)) THEN Raised("ValueError")
    ELSE
    LET active_caps == ActiveCaps(a)
        active_weights == ActiveWeights(a)
        active_rule_caps == ActiveRuleCaps(a)
        ordered_categories == DOMAIN active_caps
        cats == NormalizedCategories(hits, active_caps)
        points == [i \in 1..Len(hits) |-> hits[i].points]
        raw_points_by_category ==
            [c \in ordered_categories |-> SumCatInt(points, cats, c, Len(hits))]
        raw_points_total == SumPoints(hits, Len(hits))
        adjusted == adjusted_points_by_hit(hits, active_rule_caps)
        scored_points_by_category ==
            [c \in ordered_categories |->
                SumCatFloat(adjusted, cats, c, Len(hits))]
        capped_points_by_category ==
            [c \in ordered_categories |->
                CapCategory(scored_points_by_category[c], active_caps[c])]
        weighted ==
            [c \in ordered_categories |->
                RMul(Get(active_weights, c, active_weights[S_unknown]),
                     capped_points_by_category[c])]
        overall_raw == SumOver(ordered_categories, weighted)
        q == TransformExponent(overall_raw, a.scale)
    IN  IF ExpOverflows(RNeg(q)) THEN Raised("OverflowError")
        ELSE Returned(
            [raw_points_total |-> raw_points_total,
             raw_points_by_category |-> raw_points_by_category,
             capped_points_by_category |-> capped_points_by_category,
             transformed_score |-> q,
             final_score_0_100 |-> FinalScore(q),
             reasons_topN |->
                 build_top_reasons(hits, cats, adjusted, active_weights,
                                   a.top_n)])

(***************************************************************************)
(* diff_ai/diff_parser.py                                                  *)
(***************************************************************************)
\* 'diff --git '
S_diff_git_sp == << 100, 105, 102, 102, 32, 45, 45, 103, 105, 116, 32 >>

\* '--- '
S_minus3_sp == << 45, 45, 45, 32 >>

\* '+++ '
S_plus3_sp == << 43, 43, 43, 32 >>

\* '@@ '
S_atat_sp == << 64, 64, 32 >>

\* '@@ -'
S_atat_sp_minus == << 64, 64, 32, 45 >>

\* ' +'
S_sp_plus == << 32, 43 >>

\* ' @@'
S_sp_atat == << 32, 64, 64 >>

\* '\\ '
S_backslash_sp == << 92, 32 >>

\* 'a/'
S_a_slash == << 97, 47 >>

\* 'b/'
S_b_slash == << 98, 47 >>

\* '/dev/null'
S_dev_null == << 47, 100, 101, 118, 47, 110, 117, 108, 108 >>

\* '<unknown>'
S_unknown_path == << 60, 117, 110, 107, 110, 111, 119, 110, 62 >>

\* class Line
Line(kind, content, old_lineno, new_lineno) ==
    [kind |-> kind, content |-> content, old_lineno |-> old_lineno,
     new_lineno |-> new_lineno]

\* class FileDiff
FileDiff(old_path, new_path) ==
    [old_path |-> old_path, new_path |-> new_path, hunks |-> << >>,
     metadata |-> << >>]

\* FileDiff.path
CanonicalPath(f) ==
    IF f.new_path # None /\ f.new_path[1] # << >> /\ f.new_path[1] # S_dev_null
    THEN f.new_path[1]
    ELSE IF f.old_path # None /\ f.old_path[1] # << >>
            /\ f.old_path[1] # S_dev_null
    THEN f.old_path[1]
    ELSE S_unknown_path

\* FileDiff.is_new_file
is_new_file(f) ==
    f.old_path = Some(S_dev_null) /\ f.new_path \notin {None, Some(S_dev_null)}

\* FileDiff.is_deleted_file
is_deleted_file(f) ==
    f.new_path = Some(S_dev_null) /\ f.old_path \notin {None, Some(S_dev_null)}

\* _strip_ab_prefix
strip_ab_prefix(path) ==
    IF StartsWith(path, S_a_slash) \/ StartsWith(path, S_b_slash)
    THEN Drop(path, 2)
    ELSE path

\* the length of the longest prefix of s without character c
RECURSIVE PrefixWithout(_, _)
PrefixWithout(s, c) ==
    IF s = << >> \/ Head(s) = c THEN 0 ELSE 1 + PrefixWithout(Tail(s), c)

\* _parse_path: value.strip().split("\t", 1)[0], then the prefix is stripped
parse_path(value) ==
    LET stripped == Strip(value)
        token == SubSeq(stripped, 1, PrefixWithout(stripped, 9))
    IN  strip_ab_prefix(token)

\* the length of the first whitespace-free run of s
RECURSIVE TokenLen(_)
TokenLen(s) ==
    IF s = << >> \/ IsSpace(Head(s)) THEN 0 ELSE 1 + TokenLen(Tail(s))

\* str.split(maxsplit=n): whitespace-separated parts; the last part, when
\* the split count is exhausted, is the rest with its leading blanks removed
RECURSIVE SplitWhitespace(_, _)
SplitWhitespace(s, maxsplit) ==
    LET rest == LStrip(s)
    IN  IF rest = << >> THEN << >>
        ELSE IF maxsplit = 0 THEN << rest >>
        ELSE << SubSeq(rest, 1, TokenLen(rest)) >>
             \o SplitWhitespace(Drop(rest, TokenLen(rest)), maxsplit - 1)

\* _start_file_from_diff_header
start_file_from_diff_header(line) ==
    LET parts == SplitWhitespace(line, 3)
        old_path == IF Len(parts) > 2 THEN Some(strip_ab_prefix(parts[3]))
                    ELSE None
        new_path == IF Len(parts) > 3 THEN Some(strip_ab_prefix(parts[4]))
                    ELSE None
    IN  [FileDiff(old_path, new_path) EXCEPT !.metadata = << line >>]

IsDigit(c) == c \in 48..57

\* the length of the leading run of digits of s
DigitRun(s) ==
    LET stops == {i \in 1..Len(s) : ~IsDigit(s[i])}
    IN  IF stops = {} THEN Len(s)
        ELSE (CHOOSE i \in stops : \A j \in stops : i <= j) - 1

\* the value of a string of digits
RECURSIVE ParseInt(_)
ParseInt(s) ==
    IF s = << >> THEN 0
    ELSE 10 * ParseInt(SubSeq(s, 1, Len(s) - 1)) + (s[Len(s)] - 48)

\* The longest string of digits int() converts: the interpreter's default
\* sys.int_info.default_max_str_digits.
INT_MAX_STR_DIGITS == 4300

\* int(s) for a string of digits: None stands for the ValueError int()
\* raises for a string longer than the conversion limit
PyInt(s) == IF Len(s) > INT_MAX_STR_DIGITS THEN None ELSE Some(ParseInt(s))

\* (?:,\d+)? at the head of after: the number of digits of the count, 0
\* when there is none
CountRun(after) ==
    IF after # << >> /\ Head(after) = 44 THEN DigitRun(Tail(after)) ELSE 0

\* the groups of \d+(?:,\d+)? for a number of n digits followed by a count
\* of m digits
RangeGroups(s, n, after, m) ==
    IF n = 0 THEN None
    ELSE IF m > 0
    THEN Some(<< SubSeq(s, 1, n), Some(SubSeq(after, 2, m + 1)),
                 Drop(after, m + 1) >>)
    ELSE Some(<< SubSeq(s, 1, n), None, after >>)

RangeAfter(s, n, after) == RangeGroups(s, n, after, CountRun(after))

RangeOfRun(s, n) == RangeAfter(s, n, Drop(s, n))

\* \d+(?:,\d+)? at the head of s: None when it does not match, else
\* << start, Optional count, rest of s >>
MatchRange(s) == RangeOfRun(s, DigitRun(s))

\* the tail of HUNK_HEADER_RE, ' @@(?P<section>.*)$', after both ranges
HeaderGroups(old, new) ==
    IF new = None \/ ~StartsWith(new[1][3], S_sp_atat) THEN None
    ELSE Some([old_start |-> old[1][1], old_count |-> old[1][2],
               new_start |-> new[1][1], new_count |-> new[1][2],
               section |-> Drop(new[1][3], 3)])

\* the middle of HUNK_HEADER_RE, ' \+' and the new range, after the old one
HeaderNewRange(old) ==
    IF old = None \/ ~StartsWith(old[1][3], S_sp_plus) THEN None
    ELSE HeaderGroups(old, MatchRange(Drop(old[1][3], 2)))

\* HUNK_HEADER_RE.match(header): None when the header does not match, else
\* the groups old_start, old_count, new_start, new_count, section
HUNK_HEADER_RE(header) ==
    IF ~StartsWith(header, S_atat_sp_minus) THEN None
    ELSE HeaderNewRange(MatchRange(Drop(header, 4)))

\* int(match.group("old_count")) if match.group("old_count") else 1
CountOrOne(group) == IF group # None THEN PyInt(group[1]) ELSE Some(1)

\* HunkHeader(...) of the converted groups: None when a conversion raised
HunkHeader(old_start, old_count, new_start, new_count, section) ==
    IF None \in {old_count, new_count, old_start, new_start} THEN None
    ELSE Some([old_start |-> old_start[1], old_count |-> old_count[1],
               new_start |-> new_start[1], new_count |-> new_count[1],
               section |-> section])

\* the body of _parse_hunk_header for its match
ConvertMatch(match) ==
    IF match = None THEN None
    ELSE HunkHeader(PyInt(match[1].old_start),
                    CountOrOne(match[1].old_count),
                    PyInt(match[1].new_start),
                    CountOrOne(match[1].new_count),
                    Strip(match[1].section))

\* _parse_hunk_header: None stands for the ValueError raised when the
\* header does not match, or by a conversion int() refuses
parse_hunk_header(header) == ConvertMatch(HUNK_HEADER_RE(header))

\* Mutant: the cursor is not advanced.
inc_Stuck(value) == value

\* _inc
inc(value) == IF value = None THEN None ELSE Some(value[1] + 1)

\* The state st of the loop of parse_unified_diff is the record of its locals
\* files, current_file, current_hunk, old_lineno, new_lineno.
\* flush_hunk
flush_hunk(st) ==
    [st EXCEPT
        !.current_file =
            IF st.current_file # None /\ st.current_hunk # None
            THEN Some([st.current_file[1] EXCEPT
                          !.hunks = Append(@, st.current_hunk[1])])
            ELSE @,
        !.current_hunk = None]

\* flush_file
flush_file(st) ==
    LET s1 == flush_hunk(st)
    IN  [s1 EXCEPT
            !.files = IF s1.current_file # None
                      THEN Append(@, s1.current_file[1]) ELSE @,
            !.current_file = None]

\* The branch of the loop body a line takes: the if-chain, in its order.
LineClass(raw_line, in_hunk) ==
    IF StartsWith(raw_line, S_diff_git_sp) THEN "diff_header"
    ELSE IF StartsWith(raw_line, S_minus3_sp) THEN "old_path"
    ELSE IF StartsWith(raw_line, S_plus3_sp) THEN "new_path"
    ELSE IF StartsWith(raw_line, S_atat_sp) THEN "hunk_header"
    ELSE IF in_hunk THEN "hunk_line"
    ELSE "metadata"

\* current_file, created when there is none
EnsureFile(st) ==
    IF st.current_file = None
    THEN [st EXCEPT !.current_file = Some(FileDiff(None, None))]
    ELSE st

\* the branches "--- " and "+++ "
SetPath(st, raw_line, side) ==
    LET s1 == EnsureFile(st)
        path == Some(parse_path(Drop(raw_line, 4)))
        f1 == IF side = "old" THEN [s1.current_file[1] EXCEPT !.old_path = path]
              ELSE [s1.current_file[1] EXCEPT !.new_path = path]
        f2 == IF s1.current_hunk = None
              THEN [f1 EXCEPT !.metadata = Append(@, raw_line)]
              ELSE f1
    IN  [s1 EXCEPT !.current_file = Some(f2)]

\* the branch "@@ ", for a header that parsed
OpenHunk(st, raw_line, parsed) ==
    LET s1 == flush_hunk(EnsureFile(st))
    IN  [s1 EXCEPT
            !.current_hunk =
                Some([header |-> raw_line,
                      old_start |-> parsed.old_start,
                      old_count |-> parsed.old_count,
                      new_start |-> parsed.new_start,
                      new_count |-> parsed.new_count,
                      section |-> parsed.section,
                      lines |-> << >>]),
            !.old_lineno = Some(parsed.old_start),
            !.new_lineno = Some(parsed.new_start)]

\* the branch of an open hunk
HunkLine(st, raw_line) ==
    LET add(l) == [st.current_hunk[1] EXCEPT !.lines = Append(@, l)]
    IN  IF StartsWith(raw_line, << 32 >>)
        THEN [st EXCEPT
                 !.current_hunk =
                     Some(add(Line("context", Drop(raw_line, 1),
                                   st.old_lineno, st.new_lineno))),
                 !.old_lineno = inc(st.old_lineno),
                 !.new_lineno = inc(st.new_lineno)]
        ELSE IF StartsWith(raw_line, << 43 >>)
        THEN [st EXCEPT
                 !.current_hunk =
                     Some(add(Line("add", Drop(raw_line, 1), None,
                                   st.new_lineno))),
                 !.new_lineno = inc(st.new_lineno)]
        ELSE IF StartsWith(raw_line, << 45 >>)
        THEN [st EXCEPT
                 !.current_hunk =
                     Some(add(Line("delete", Drop(raw_line, 1),
                                   st.old_lineno, None))),
                 !.old_lineno = inc(st.old_lineno)]
        ELSE IF StartsWith(raw_line, S_backslash_sp)
        THEN [st EXCEPT
                 !.current_hunk =
                     Some(add(Line("meta", Drop(raw_line, 2), None, None)))]
        ELSE [st EXCEPT
                 !.current_hunk =
                     Some(add(Line("meta", raw_line, None, None)))]

\* the last branch: a line outside any hunk
MetadataLine(st, raw_line) ==
    IF st.current_file # None
    THEN [st EXCEPT
             !.current_file =
                 Some([st.current_file[1] EXCEPT
                          !.metadata = Append(@, raw_line)])]
    ELSE st

\* One iteration of the loop of parse_unified_diff: None when the iteration
\* raises (the hunk header does not parse), else the locals after it.
LoopBody(st, raw_line) ==
    LET class == LineClass(raw_line, st.current_hunk # None)
    IN  IF class = "diff_header"
        THEN Some([flush_file(st) EXCEPT
                      !.current_file =
                          Some(start_file_from_diff_header(raw_line))])
        ELSE IF class = "old_path" THEN Some(SetPath(st, raw_line, "old"))
        ELSE IF class = "new_path" THEN Some(SetPath(st, raw_line, "new"))
        ELSE IF class = "hunk_header"
        THEN LET parsed == parse_hunk_header(raw_line)
             IN  IF parsed = None THEN None
                 ELSE Some(OpenHunk(st, raw_line, parsed[1]))
        ELSE IF class = "hunk_line" THEN Some(HunkLine(st, raw_line))
        ELSE Some(MetadataLine(st, raw_line))

\* The lines a diff text may hold.
\* 'diff --git a/x b/x'
L_diff == << 100, 105, 102, 102, 32, 45, 45, 103, 105, 116, 32, 97, 47, 120, 32, 98, 47, 120 >>

\* '--- a/x'
L_old == << 45, 45, 45, 32, 97, 47, 120 >>

\* '+++ b/y\t1'
L_new == << 43, 43, 43, 32, 98, 47, 121, 9, 49 >>

\* '@@ -1,2 +3 @@ s'
L_hunk == << 64, 64, 32, 45, 49, 44, 50, 32, 43, 51, 32, 64, 64, 32, 115 >>

\* '@@ -5 +7,0 @@'
L_hunk_short == << 64, 64, 32, 45, 53, 32, 43, 55, 44, 48, 32, 64, 64 >>

\* '@@ -x +1 @@'
L_bad == << 64, 64, 32, 45, 120, 32, 43, 49, 32, 64, 64 >>

\* '@@ -1 +99...9 @@': a header of the grammar whose new_start has one
\* digit more than int() converts
L_huge ==
    << 64, 64, 32, 45, 49, 32, 43 >>
    \o [i \in 1..(INT_MAX_STR_DIGITS + 1) |-> 57]
    \o << 32, 64, 64 >>

\* ' c'
L_ctx == << 32, 99 >>

\* '+a'
L_add == << 43, 97 >>

\* '-d'
L_del == << 45, 100 >>

\* '\\ n'
L_nonl == << 92, 32, 110 >>

\* 'junk'
L_junk == << 106, 117, 110, 107 >>

LineUniverse ==
    { L_diff, L_old, L_new, L_hunk, L_hunk_short, L_bad, L_huge, L_ctx, L_add,
      L_del, L_nonl, L_junk }

(***************************************************************************)
(* The inputs the model draws.                                             *)
(***************************************************************************)
\* "f", "g", "m", "x", "y"
S_f == << 102 >>

S_g == << 103 >>

S_m == << 109 >>

S_x == << 120 >>

S_y == << 121 >>

\* " Security ": a label that needs strip() and lower()
S_Security_padded == << 32, 83, 101, 99, 117, 114, 105, 116, 121, 32 >>

S_bogus == << 98, 111, 103, 117, 115 >>

\* rule ids "s", "q", "b", "t", "p", "n"
S_s == << 115 >>

S_q == << 113 >>

S_b == << 98 >>

S_t == << 116 >>

S_p == << 112 >>

S_n == << 110 >>

\* The RuleHits a caller may pass.
HitUniverse ==
    { RuleHit(S_magnitude, S_integration, 16, "global", None, None, S_m),
      RuleHit(S_magnitude, S_integration, 14, "file", Some(S_f), None, S_m),
      RuleHit(S_magnitude, S_logic, -25, "hunk", Some(S_f), Some(0), S_m),
      RuleHit(S_s, S_Security_padded, 20, "file", Some(S_f), None, S_x),
      RuleHit(S_s, S_security, 20, "file", Some(S_f), None, S_y),
      RuleHit(S_q, S_quality, 3, "global", None, None, S_m),
      RuleHit(S_b, S_bogus, 25, "global", None, None, S_m),
      RuleHit(S_t, S_test_adequacy, -11, "global", None, None, S_m),
      RuleHit(S_p, S_profile, 5, "hunk", Some(S_g), Some(1), S_m),
      RuleHit(S_n, S_logic, -30000, "global", None, None, S_m),
      RuleHit(S_magnitude, S_quality, 20, "file", Some(S_f), None, S_m) }

EmptyTable == [k \in {} |-> 0]

\* The keyword arguments a caller may pass.
CallArgs ==
    { \* every default
      [caps |-> None, weights |-> None, rule_caps |-> None,
       scale |-> DEFAULT_SCALE, top_n |-> 5],
      \* the caller's own tables, without "unknown", and no rule caps
      [caps |-> Some((S_security :> 10) @@ (S_quality :> 5)),
       weights |-> Some((S_security :> Float(2))),
       rule_caps |-> Some(EmptyTable),
       scale |-> DEFAULT_SCALE, top_n |-> 2],
      \* no reasons asked for
      [caps |-> None, weights |-> None, rule_caps |-> None,
       scale |-> Float(18), top_n |-> 0],
      \* a scale the guard rejects
      [caps |-> None, weights |-> None, rule_caps |-> None,
       scale |-> Float(0), top_n |-> 5],
      \* the caller's own weights, one of them negative
      [caps |-> None, weights |-> Some((S_integration :> Rat(-1, 2))),
       rule_caps |-> None, scale |-> DEFAULT_SCALE, top_n |-> 5] }

(***************************************************************************)
(* The plugin scheduler: schedule_plugin_rules.                            *)
(***************************************************************************)
\* 'fast'
S_fast == << 102, 97, 115, 116 >>

\* 'standard'
S_standard == << 115, 116, 97, 110, 100, 97, 114, 100 >>

\* 'deep'
S_deep == << 100, 101, 101, 112 >>

\* 'FAST'
S_FAST_upper == << 70, 65, 83, 84 >>

\* 'turbo'
S_turbo == << 116, 117, 114, 98, 111 >>

\* 'deferred_work_markers'
S_deferred_work_markers == << 100, 101, 102, 101, 114, 114, 101, 100, 95, 119, 111, 114, 107, 95, 109, 97, 114, 107, 101, 114, 115 >>

\* 'plugin_deferred_work_markers'
S_plugin_deferred_work_markers == << 112, 108, 117, 103, 105, 110, 95, 100, 101, 102, 101, 114, 114, 101, 100, 95, 119, 111, 114, 107, 95, 109, 97, 114, 107, 101, 114, 115 >>

\* 'cross_layer_touchpoints'
S_cross_layer_touchpoints == << 99, 114, 111, 115, 115, 95, 108, 97, 121, 101, 114, 95, 116, 111, 117, 99, 104, 112, 111, 105, 110, 116, 115 >>

\* 'plugin_cross_layer_touchpoints'
S_plugin_cross_layer_touchpoints == << 112, 108, 117, 103, 105, 110, 95, 99, 114, 111, 115, 115, 95, 108, 97, 121, 101, 114, 95, 116, 111, 117, 99, 104, 112, 111, 105, 110, 116, 115 >>

\* 'network_exposure_probe'
S_network_exposure_probe == << 110, 101, 116, 119, 111, 114, 107, 95, 101, 120, 112, 111, 115, 117, 114, 101, 95, 112, 114, 111, 98, 101 >>

\* 'plugin_network_exposure_probe'
S_plugin_network_exposure_probe == << 112, 108, 117, 103, 105, 110, 95, 110, 101, 116, 119, 111, 114, 107, 95, 101, 120, 112, 111, 115, 117, 114, 101, 95, 112, 114, 111, 98, 101 >>

\* 'extra_a'
S_extra_a == << 101, 120, 116, 114, 97, 95, 97 >>

\* 'plugin_extra_a'
S_plugin_extra_a == << 112, 108, 117, 103, 105, 110, 95, 101, 120, 116, 114, 97, 95, 97 >>

\* 'extra_b'
S_extra_b == << 101, 120, 116, 114, 97, 95, 98 >>

\* 'plugin_extra_b'
S_plugin_extra_b == << 112, 108, 117, 103, 105, 110, 95, 101, 120, 116, 114, 97, 95, 98 >>

\* 'pack-inactive'
S_pack_inactive == << 112, 97, 99, 107, 45, 105, 110, 97, 99, 116, 105, 118, 101 >>

\* 'mode-incompatible'
S_mode_incompatible == << 109, 111, 100, 101, 45, 105, 110, 99, 111, 109, 112, 97, 116, 105, 98, 108, 101 >>

\* 'mode-cost-cap'
S_mode_cost_cap == << 109, 111, 100, 101, 45, 99, 111, 115, 116, 45, 99, 97, 112 >>

\* 'budget-exceeded'
S_budget_exceeded == << 98, 117, 100, 103, 101, 116, 45, 101, 120, 99, 101, 101, 100, 101, 100 >>

\* 'selected'
S_selected == << 115, 101, 108, 101, 99, 116, 101, 100 >>

\* 'completed'
S_completed == << 99, 111, 109, 112, 108, 101, 116, 101, 100 >>

\* 'no_such_plugin'
S_no_such_plugin == << 110, 111, 95, 115, 117, 99, 104, 95, 112, 108, 117, 103, 105, 110 >>

MODE_MAX_PLUGIN_COST_SECONDS ==
    (S_fast :> Rat(5, 2)) @@ (S_standard :> Float(8)) @@ (S_deep :> Float(60))

\* PluginInfo
PluginInfo(plugin_id, rule_id, category, packs, cost, modes, priority) ==
    [plugin_id |-> plugin_id, rule_id |-> rule_id, category |-> category,
     packs |-> packs, estimated_cost_seconds |-> cost, modes |-> modes,
     priority |-> priority]

AllModes == << S_fast, S_standard, S_deep >>

DeferredWorkMarkersPlugin ==
    PluginInfo(S_deferred_work_markers, S_plugin_deferred_work_markers,
               S_logic, << S_logic >>, Float(1), AllModes, 100)

CrossLayerTouchpointsPlugin ==
    PluginInfo(S_cross_layer_touchpoints, S_plugin_cross_layer_touchpoints,
               S_integration, << S_integration >>, Float(4),
               << S_standard, S_deep >>, 90)

NetworkExposureProbePlugin ==
    PluginInfo(S_network_exposure_probe, S_plugin_network_exposure_probe,
               S_security, << S_security >>, Float(3),
               << S_standard, S_deep >>, 80)

\* Two plugins outside the built-in set, subclasses of PluginBase that keep
\* its class attributes (category and pack "quality", every mode, priority
\* 50); the first declares a cost of 9 seconds, the second keeps 1 second.
ExtraPluginA ==
    PluginInfo(S_extra_a, S_plugin_extra_a, S_quality, << S_quality >>,
               Float(9), AllModes, 50)

ExtraPluginB ==
    PluginInfo(S_extra_b, S_plugin_extra_b, S_quality, << S_quality >>,
               Float(1), AllModes, 50)

\* _plugin_specs and list_plugin_info: the registered plugins, the built-in
\* ones after those registered besides them
list_plugin_info(include_builtin, extra) ==
    extra \o (IF include_builtin
              THEN << DeferredWorkMarkersPlugin, CrossLayerTouchpointsPlugin,
                      NetworkExposureProbePlugin >>
              ELSE << >>)

\* the elements of a list, as a set
Elems(s) == {s[i] : i \in 1..Len(s)}

\* Mutant: the last occurrence of a duplicate is kept, not the first.
RECURSIVE dedupe_KeepLast(_)
dedupe_KeepLast(items) ==
    IF items = << >> THEN << >>
    ELSE IF Head(items) \in Elems(Tail(items)) THEN dedupe_KeepLast(Tail(items))
    ELSE << Head(items) >> \o dedupe_KeepLast(Tail(items))

\* _dedupe: the first occurrence of every item, in order
RECURSIVE dedupe(_)
dedupe(items) ==
    IF items = << >> THEN << >>
    ELSE LET front == dedupe(SubSeq(items, 1, Len(items) - 1))
             last == items[Len(items)]
         IN  IF last \in Elems(front) THEN front ELSE Append(front, last)

\* sorted(infos, key=priority, reverse=True): stable, an item goes before the
\* first item of strictly smaller priority
RECURSIVE InsertByPriority(_, _)
InsertByPriority(sorted, item) ==
    IF sorted = << >> THEN << item >>
    ELSE IF Head(sorted).priority < item.priority THEN << item >> \o sorted
    ELSE << Head(sorted) >> \o InsertByPriority(Tail(sorted), item)

RECURSIVE SortByPriority(_)
SortByPriority(infos) ==
    IF infos = << >> THEN << >>
    ELSE InsertByPriority(SortByPriority(SubSeq(infos, 1, Len(infos) - 1)),
                          infos[Len(infos)])

\* a list without the items of a set
RECURSIVE Without(_, _)
Without(items, excluded) ==
    IF items = << >> THEN << >>
    ELSE (IF Head(items) \in excluded THEN << >> ELSE << Head(items) >>)
         \o Without(Tail(items), excluded)

PluginIds(infos) == [i \in 1..Len(infos) |-> infos[i].plugin_id]

\* candidate_ids of schedule_plugin_rules
CandidateIds(infos, enabled_plugin_ids, disabled_plugin_ids) ==
    LET disabled == Elems(OrElse(disabled_plugin_ids, << >>))
    IN  IF OrElse(enabled_plugin_ids, << >>) # << >>
        THEN Without(dedupe(enabled_plugin_ids[1]), disabled)
        ELSE Without(PluginIds(SortByPriority(infos)), disabled)

\* info_by_id[plugin_id]
InfoById(infos, plugin_id) ==
    LET i == CHOOSE k \in 1..Len(infos) :
                 /\ infos[k].plugin_id = plugin_id
                 /\ \A j \in (k + 1)..Len(infos) : infos[j].plugin_id # plugin_id
    IN  infos[i]

\* the ids of the enable and disable lists that no plugin has
UnknownPluginIds(infos, enabled_plugin_ids, disabled_plugin_ids) ==
    (Elems(OrElse(enabled_plugin_ids, << >>))
     \cup Elems(OrElse(disabled_plugin_ids, << >>)))
    \ Elems(PluginIds(infos))

\* Mutant: the budget gate is tested before the others.
AdmissionGate_BudgetFirst(info, active_packs, resolved_mode, spent, budget) ==
    IF RLt(Float(budget), RAdd(spent, info.estimated_cost_seconds))
    THEN S_budget_exceeded
    ELSE IF active_packs \cap Elems(info.packs) = {} THEN S_pack_inactive
    ELSE IF resolved_mode \notin Elems(info.modes) THEN S_mode_incompatible
    ELSE IF RLt(MODE_MAX_PLUGIN_COST_SECONDS[resolved_mode],
                info.estimated_cost_seconds)
    THEN S_mode_cost_cap
    ELSE S_selected

\* Mutant: the budget gate is left out.
AdmissionGate_NoBudget(info, active_packs, resolved_mode, spent, budget) ==
    IF active_packs \cap Elems(info.packs) = {} THEN S_pack_inactive
    ELSE IF resolved_mode \notin Elems(info.modes) THEN S_mode_incompatible
    ELSE IF RLt(MODE_MAX_PLUGIN_COST_SECONDS[resolved_mode],
                info.estimated_cost_seconds)
    THEN S_mode_cost_cap
    ELSE S_selected

\* the gates of one iteration of the loop, in their order: the reason the
\* run record ends with
AdmissionGate(info, active_packs, resolved_mode, spent, budget) ==
    IF active_packs \cap Elems(info.packs) = {} THEN S_pack_inactive
    ELSE IF resolved_mode \notin Elems(info.modes) THEN S_mode_incompatible
    ELSE IF RLt(MODE_MAX_PLUGIN_COST_SECONDS[resolved_mode],
                info.estimated_cost_seconds)
    THEN S_mode_cost_cap
    ELSE IF RLt(Float(budget), RAdd(spent, info.estimated_cost_seconds))
    THEN S_budget_exceeded
    ELSE S_selected

\* PluginRun
PluginRun(info, status, reason) ==
    [plugin_id |-> info.plugin_id, rule_id |-> info.rule_id,
     category |-> info.category, packs |-> info.packs,
     estimated_cost_seconds |-> info.estimated_cost_seconds,
     status |-> status, reason |-> reason, elapsed_ms |-> None,
     findings |-> 0]

(***************************************************************************)
(* diff_ai/rules/__init__.py: the rule registry.                           *)
(***************************************************************************)
\* 'critical_paths'
S_critical_paths == << 99, 114, 105, 116, 105, 99, 97, 108, 95, 112, 97, 116, 104, 115 >>

\* 'test_signals'
S_test_signals == << 116, 101, 115, 116, 95, 115, 105, 103, 110, 97, 108, 115 >>

\* 'dependency_changes'
S_dependency_changes == << 100, 101, 112, 101, 110, 100, 101, 110, 99, 121, 95, 99, 104, 97, 110, 103, 101, 115 >>

\* 'config_changes'
S_config_changes == << 99, 111, 110, 102, 105, 103, 95, 99, 104, 97, 110, 103, 101, 115 >>

\* 'dangerous_patterns'
S_dangerous_patterns == << 100, 97, 110, 103, 101, 114, 111, 117, 115, 95, 112, 97, 116, 116, 101, 114, 110, 115 >>

\* 'error_handling'
S_error_handling == << 101, 114, 114, 111, 114, 95, 104, 97, 110, 100, 108, 105, 110, 103 >>

\* 'api_surface'
S_api_surface == << 97, 112, 105, 95, 115, 117, 114, 102, 97, 99, 101 >>

\* 'docs_only'
S_docs_only == << 100, 111, 99, 115, 95, 111, 110, 108, 121 >>

\* 'destructive_changes'
S_destructive_changes == << 100, 101, 115, 116, 114, 117, 99, 116, 105, 118, 101, 95, 99, 104, 97, 110, 103, 101, 115 >>

\* 'profile_signals'
S_profile_signals == << 112, 114, 111, 102, 105, 108, 101, 95, 115, 105, 103, 110, 97, 108, 115 >>

\* _RuleSpec
RuleSpec(rule_id, category, packs) ==
    [rule_id |-> rule_id, category |-> category, packs |-> packs]

ordered_rule_specs ==
    << RuleSpec(S_magnitude, S_integration, << S_integration >>),
       RuleSpec(S_critical_paths, S_security, << S_security >>),
       RuleSpec(S_test_signals, S_test_adequacy, << S_test_adequacy >>),
       RuleSpec(S_dependency_changes, S_integration, << S_integration >>),
       RuleSpec(S_config_changes, S_integration, << S_integration >>),
       RuleSpec(S_dangerous_patterns, S_security, << S_security >>),
       RuleSpec(S_error_handling, S_logic, << S_logic >>),
       RuleSpec(S_api_surface, S_logic, << S_logic >>),
       RuleSpec(S_docs_only, S_quality, << S_quality >>),
       RuleSpec(S_destructive_changes, S_integration, << S_integration >>),
       RuleSpec(S_profile_signals, S_profile, << S_profile >>) >>

RuleIds(specs) == [i \in 1..Len(specs) |-> specs[i].rule_id]

\* the spec of a known rule id
SpecById(rule_id) ==
    ordered_rule_specs[CHOOSE i \in 1..Len(ordered_rule_specs) :
                           ordered_rule_specs[i].rule_id = rule_id]

\* 'feature_oneshot'
S_feature_oneshot == << 102, 101, 97, 116, 117, 114, 101, 95, 111, 110, 101, 115, 104, 111, 116 >>

\* 'security_strict'
S_security_strict == << 115, 101, 99, 117, 114, 105, 116, 121, 95, 115, 116, 114, 105, 99, 116 >>

\* 'Security_Strict'
S_Security_Strict_mixed == << 83, 101, 99, 117, 114, 105, 116, 121, 95, 83, 116, 114, 105, 99, 116 >>

\* 'no_such_rule'
S_no_such_rule == << 110, 111, 95, 115, 117, 99, 104, 95, 114, 117, 108, 101 >>

KNOWN_CATEGORIES ==
    { S_logic, S_integration, S_test_adequacy, S_security, S_quality,
      S_profile }

\* _ObjectivePreset
ObjectivePreset(default_packs, category_weights) ==
    [default_packs |-> default_packs, category_weights |-> category_weights]

OBJECTIVE_PRESETS ==
    (S_feature_oneshot :>
        ObjectivePreset(
            << S_logic, S_integration, S_test_adequacy, S_quality, S_profile >>,
            (S_logic :> Rat(135, 100)) @@ (S_integration :> Rat(115, 100))
            @@ (S_test_adequacy :> Rat(135, 100)) @@ (S_security :> Rat(60, 100))
            @@ (S_quality :> Float(1)) @@ (S_profile :> Float(1))))
    @@ (S_security_strict :>
        ObjectivePreset(
            << S_logic, S_integration, S_test_adequacy, S_quality, S_profile,
               S_security >>,
            (S_logic :> Float(1)) @@ (S_integration :> Rat(105, 100))
            @@ (S_test_adequacy :> Float(1)) @@ (S_security :> Rat(140, 100))
            @@ (S_quality :> Float(1)) @@ (S_profile :> Rat(110, 100))))

\* _resolve_objective_preset: None where it raises
resolve_objective_preset(name) ==
    IF Lower(name) \in DOMAIN OBJECTIVE_PRESETS
    THEN Some(OBJECTIVE_PRESETS[Lower(name)])
    ELSE None

\* _known_packs
known_packs(specs) == UNION { Elems(specs[i].packs) : i \in 1..Len(specs) }

\* _validate_packs raises
UnknownPacks(packs, known) == Elems(packs) \ known # {}

\* Mutant: a pack of the disable list stays active when it is enabled too.
ActivePacks_EnableWins(default_packs, enabled_packs, disabled_packs) ==
    (Elems(default_packs) \ Elems(disabled_packs)) \cup Elems(enabled_packs)

\* the set arithmetic of resolve_active_packs
ActivePacks(default_packs, enabled_packs, disabled_packs) ==
    (Elems(default_packs) \cup Elems(enabled_packs)) \ Elems(disabled_packs)

\* resolve_active_packs with the preset resolved
ResolvePacksOf(preset, enabled_packs, disabled_packs) ==
    IF preset = None THEN Raised("unknown-objective")
    ELSE IF UnknownPacks(enabled_packs, known_packs(ordered_rule_specs))
    THEN Raised("unknown-packs")
    ELSE IF UnknownPacks(disabled_packs, known_packs(ordered_rule_specs))
    THEN Raised("unknown-packs")
    ELSE Returned(ActivePacks(preset[1].default_packs, enabled_packs,
                              disabled_packs))

resolve_active_packs(objective_name, enabled_packs, disabled_packs) ==
    ResolvePacksOf(resolve_objective_preset(objective_name),
                   OrElse(enabled_packs, << >>), OrElse(disabled_packs, << >>))

\* _candidate_rule_ids
candidate_rule_ids(specs, active_packs) ==
    RuleIds(SelectSeq(specs, LAMBDA spec : active_packs \cap Elems(spec.packs) # {}))

\* weights.update(overrides) over the preset's weights with the default 1.0
\* for every known category the preset leaves out
WeightsOf(preset, overrides) ==
    [c \in KNOWN_CATEGORIES \cup DOMAIN preset.category_weights
           \cup DOMAIN overrides |->
        IF c \in DOMAIN overrides THEN overrides[c]
        ELSE Get(preset.category_weights, c, Float(1))]

\* _build_category_weights with the preset resolved
BuildWeightsOf(preset, overrides) ==
    IF preset = None THEN Raised("unknown-objective")
    ELSE IF DOMAIN overrides \ KNOWN_CATEGORIES # {}
    THEN Raised("unknown-weight-categories")
    ELSE Returned(WeightsOf(preset[1], overrides))

build_category_weights(objective_name, overrides) ==
    BuildWeightsOf(resolve_objective_preset(objective_name),
                   OrElse(overrides, EmptyTable))

\* 1 / 1e-9
WEIGHT_EPSILON_INVERSE == 1000000000

\* abs(a) <= 1e-9
WithinEpsilon(a) == Abs(a[1]) <= a[2] \div WEIGHT_EPSILON_INVERSE

\* Mutant: a weight of zero keeps the rule.
WeightVerdict_KeepsZero(weight) ==
    IF RLt(weight, Float(0)) THEN "raise"
    ELSE IF WithinEpsilon(RAdd(weight, Float(-1))) THEN "plain"
    ELSE "weighted"

\* what the loop of build_rules does with a rule of this weight
WeightVerdict(weight) ==
    IF RLt(weight, Float(0)) THEN "raise"
    ELSE IF WithinEpsilon(weight) THEN "drop"
    ELSE IF WithinEpsilon(RAdd(weight, Float(-1))) THEN "plain"
    ELSE "weighted"

\* Mutant: the ids of the disable-list are not removed from the enable-list.
SelectedIds_IgnoresDisabled(enabled_rule_ids, disabled_rule_ids, active_packs) ==
    IF enabled_rule_ids = None
    THEN Without(candidate_rule_ids(ordered_rule_specs, active_packs),
                 Elems(OrElse(disabled_rule_ids, << >>)))
    ELSE dedupe(enabled_rule_ids[1])

\* selected_ids of build_rules
SelectedIds(enabled_rule_ids, disabled_rule_ids, active_packs) ==
    IF enabled_rule_ids = None
    THEN Without(candidate_rule_ids(ordered_rule_specs, active_packs),
                 Elems(OrElse(disabled_rule_ids, << >>)))
    ELSE Without(dedupe(enabled_rule_ids[1]),
                 Elems(OrElse(disabled_rule_ids, << >>)))

\* a built rule: the rule itself or a _WeightedRule around it
BuiltRule(rule_id, weight) == [rule_id |-> rule_id, weight |-> weight]

(***************************************************************************)
(* diff_ai/scoring.py: score_files, and the wrapper of a scheduled plugin.  *)
(***************************************************************************)
\* 'overall'
S_overall == << 111, 118, 101, 114, 97, 108, 108 >>

\* 'file:'
S_file_colon == << 102, 105, 108, 101, 58 >>

\* 'hunk:'
S_hunk_colon == << 104, 117, 110, 107, 58 >>

\* 'file:f'
S_file_f == << 102, 105, 108, 101, 58, 102 >>

\* ': '
S_colon_sp == << 58, 32 >>

\* 'RuntimeError'
S_RuntimeError == << 82, 117, 110, 116, 105, 109, 101, 69, 114, 114, 111, 114 >>

\* 'SystemExit'
S_SystemExit == << 83, 121, 115, 116, 101, 109, 69, 120, 105, 116 >>

\* 'boom'
S_boom == << 98, 111, 111, 109 >>

\* '3'
S_3 == << 51 >>

\* Finding
Finding(rule_id, points, message, evidence, scope, suggestion) ==
    [rule_id |-> rule_id, points |-> points, message |-> message,
     evidence |-> evidence, scope |-> scope, suggestion |-> suggestion]

\* _DEFAULT_RULE_CATEGORIES
DEFAULT_RULE_CATEGORIES ==
    [id \in Elems(RuleIds(ordered_rule_specs)) |-> SpecById(id).category]

\* the position of the last occurrence of c in s (0 when absent)
LastIndexOf(s, c) ==
    IF c \in Elems(s)
    THEN CHOOSE i \in 1..Len(s) : s[i] = c /\ \A j \in (i + 1)..Len(s) : s[j] # c
    ELSE 0

\* int(index_text) of _parse_scope, None where it raises ValueError; the
\* index texts at hand are runs of digits or hold a character that is none
IndexOrNone(index_text) ==
    IF index_text # << >> /\ \A i \in 1..Len(index_text) : IsDigit(index_text[i])
    THEN PyInt(index_text)
    ELSE None

ParsedScope(kind, path, hunk_index) ==
    [kind |-> kind, path |-> path, hunk_index |-> hunk_index]

\* the branch of _parse_scope for scopes that start with 'hunk:'
ParseHunkScope(remainder, k) ==
    IF k = 0 THEN ParsedScope("file", remainder, None)
    ELSE IF IndexOrNone(Drop(remainder, k)) # None
    THEN ParsedScope("hunk", SubSeq(remainder, 1, k - 1),
                     IndexOrNone(Drop(remainder, k)))
    ELSE ParsedScope("file",
                     IF k > 1 THEN SubSeq(remainder, 1, k - 1) ELSE remainder,
                     None)

\* _parse_scope
parse_scope(scope) ==
    IF scope = S_overall THEN ParsedScope("overall", << >>, None)
    ELSE IF StartsWith(scope, S_file_colon)
    THEN ParsedScope("file", Drop(scope, 5), None)
    ELSE IF StartsWith(scope, S_hunk_colon)
    THEN ParseHunkScope(Drop(scope, 5), LastIndexOf(Drop(scope, 5), 58))
    ELSE ParsedScope("overall", << >>, None)

\* the RuleHit of a finding whose scope parsed to ps
HitOfParsed(finding, category, ps) ==
    RuleHit(finding.rule_id, category, finding.points,
            IF ps.kind = "hunk" THEN "hunk"
            ELSE IF ps.kind = "file" THEN "file" ELSE "global",
            IF ps.path # << >> THEN Some(ps.path) ELSE None,
            ps.hunk_index, finding.message)

\* _finding_to_rule_hit
finding_to_rule_hit(finding, categories) ==
    HitOfParsed(finding, Get(categories, finding.rule_id, S_unknown),
                parse_scope(finding.scope))

\* an entry of active_rules: a rule_id and, for the rules that have the
\* attribute, a category
ActiveRule(rule_id, category) == [rule_id |-> rule_id, category |-> category]

\* _rule_categories: the defaults, and the category attribute of every
\* other rule that has one
rule_categories(rules) ==
    [id \in DOMAIN DEFAULT_RULE_CATEGORIES
           \cup {rules[i].rule_id : i \in {j \in 1..Len(rules) :
                                              rules[j].category # None}} |->
        IF id \in DOMAIN DEFAULT_RULE_CATEGORIES
        THEN DEFAULT_RULE_CATEGORIES[id]
        ELSE rules[CHOOSE i \in 1..Len(rules) :
                       /\ rules[i].rule_id = id
                       /\ rules[i].category # None
                       /\ \A j \in 1..(i - 1) :
                            ~(rules[j].rule_id = id /\ rules[j].category # None)
                  ].category[1]]

\* an exception: whether its class derives from Exception, the name of its
\* class and str(exc)
Exc(derives_from_exception, class_name, text) ==
    [derives_from_exception |-> derives_from_exception,
     class_name |-> class_name, text |-> text]

\* f"{exc.__class__.__name__}: {exc}"
FailureReason(exc) == exc.class_name \o S_colon_sp \o exc.text

\* the run record after _ScheduledPluginRule.evaluate: result is what
\* plugin.evaluate did, a finding list returned or an exception raised
FinishRun(run, result, elapsed_ms) ==
    IF result.raised = None
    THEN [run EXCEPT !.status = "ran", !.reason = S_completed,
                     !.findings = Len(result.findings),
                     !.elapsed_ms = Some(elapsed_ms)]
    ELSE IF result.raised[1].derives_from_exception
    THEN [run EXCEPT !.status = "failed",
                     !.reason = FailureReason(result.raised[1]),
                     !.findings = 0,
                     !.elapsed_ms = Some(elapsed_ms)]
    ELSE [run EXCEPT !.elapsed_ms = Some(elapsed_ms)]

\* what _ScheduledPluginRule.evaluate returns, None where the exception
\* leaves the wrapper
WrapperReturn(result) ==
    IF result.raised = None THEN Some(result.findings)
    ELSE IF result.raised[1].derives_from_exception THEN Some(<< >>)
    ELSE None

(***************************************************************************)
(* diff_ai/rules: DocsOnlyRule, _WeightedRule, default_rules.              *)
(***************************************************************************)
\* 'docs/'
S_docs_slash == << 100, 111, 99, 115, 47 >>

\* '/docs/'
S_slash_docs_slash == << 47, 100, 111, 99, 115, 47 >>

\* DOC_SUFFIXES: '.md', '.rst', '.adoc', '.txt'
DOC_SUFFIXES ==
    { << 46, 109, 100 >>,
      << 46, 114, 115, 116 >>,
      << 46, 97, 100, 111, 99 >>,
      << 46, 116, 120, 116 >> }

\* needle in haystack, for strings
Contains(haystack, needle) ==
    \E i \in 0..(Len(haystack) - Len(needle)) :
        SubSeq(haystack, i + 1, i + Len(needle)) = needle

\* the components of a path that PurePosixPath keeps: the runs between '/'
\* other than '' and '.'
RECURSIVE PathParts(_)
PathParts(path) ==
    IF path = << >> THEN << >>
    ELSE LET cut == IF 47 \in Elems(path)
                    THEN CHOOSE i \in 1..Len(path) :
                            path[i] = 47 /\ \A j \in 1..(i - 1) : path[j] # 47
                    ELSE Len(path) + 1
             part == SubSeq(path, 1, cut - 1)
         IN  (IF part = << >> \/ part = << 46 >> THEN << >> ELSE << part >>)
             \o PathParts(Drop(path, cut))

\* PurePosixPath(path).suffix: the last component from its last '.', unless
\* that '.' begins or ends the component
PathSuffix(path) ==
    LET parts == PathParts(path)
        name == IF parts = << >> THEN << >> ELSE parts[Len(parts)]
        dot == LastIndexOf(name, 46)
    IN  IF 1 < dot /\ dot < Len(name) THEN Drop(name, dot - 1) ELSE << >>

\* _is_doc_path
is_doc_path(path) ==
    \/ StartsWith(Lower(path), S_docs_slash)
    \/ Contains(Lower(path), S_slash_docs_slash)
    \/ PathSuffix(Lower(path)) \in DOC_SUFFIXES

\* 'Documentation-only diff.'
S_docs_message == << 68, 111, 99, 117, 109, 101, 110, 116, 97, 116, 105, 111, 110, 45, 111, 110, 108, 121, 32, 100, 105, 102, 102, 46 >>

\* ' documentation files changed.'
S_docs_evidence_tail == << 32, 100, 111, 99, 117, 109, 101, 110, 116, 97, 116, 105, 111, 110, 32, 102, 105, 108, 101, 115, 32, 99, 104, 97, 110, 103, 101, 100, 46 >>

\* 'Verify docs accurately describe implementation behavior.'
S_docs_suggestion == << 86, 101, 114, 105, 102, 121, 32, 100, 111, 99, 115, 32, 97, 99, 99, 117, 114, 97, 116, 101, 108, 121, 32, 100, 101, 115, 99, 114, 105, 98, 101, 32, 105, 109, 112, 108, 101, 109, 101, 110, 116, 97, 116, 105, 111, 110, 32, 98, 101, 104, 97, 118, 105, 111, 114, 46 >>

\* Mutant: the finding of a documentation-only diff adds risk.
DocsOnlyEvaluate_AddsRisk(fs) ==
    IF fs = << >> THEN << >>
    ELSE IF ~(\A i \in 1..Len(fs) : is_doc_path(CanonicalPath(fs[i])))
    THEN << >>
    ELSE << Finding(S_docs_only, IF Len(fs) >= 8 THEN 16 ELSE 12,
                    S_docs_message, Digits(Len(fs)) \o S_docs_evidence_tail,
                    S_overall, S_docs_suggestion) >>

\* DocsOnlyRule.evaluate
DocsOnlyEvaluate(fs) ==
    IF fs = << >> THEN << >>
    ELSE IF ~(\A i \in 1..Len(fs) : is_doc_path(CanonicalPath(fs[i])))
    THEN << >>
    ELSE << Finding(S_docs_only, IF Len(fs) >= 8 THEN -16 ELSE -12,
                    S_docs_message, Digits(Len(fs)) \o S_docs_evidence_tail,
                    S_overall, S_docs_suggestion) >>

\* Mutant: the product is truncated toward zero instead of rounded.
scale_points_Truncates(points, weight) ==
    LET product == RMul(Float(points), weight)
        scaled == IF RLt(product, Float(0)) THEN -RFloor(RNeg(product))
                  ELSE RFloor(product)
    IN  IF points # 0 /\ scaled = 0 THEN (IF points > 0 THEN 1 ELSE -1)
        ELSE scaled

\* _scale_points
scale_points(points, weight) ==
    LET scaled == PyRound(RMul(Float(points), weight))
    IN  IF points # 0 /\ scaled = 0 THEN (IF points > 0 THEN 1 ELSE -1)
        ELSE scaled

\* _WeightedRule.evaluate over the findings of the wrapped rule
WeightedEvaluate(findings, weight) ==
    IF WithinEpsilon(RAdd(weight, Float(-1))) THEN findings
    ELSE [i \in 1..Len(findings) |->
            Finding(findings[i].rule_id,
                    scale_points(findings[i].points, weight),
                    findings[i].message, findings[i].evidence,
                    findings[i].scope, findings[i].suggestion)]

\* A rule object handed to score_files: rule_id, the category attribute
\* where the object has one, the weight where it is a _WeightedRule, and its
\* evaluate: that of DocsOnlyRule, or a list of findings it returns.
RuleObject(kind, rule_id, category, weight, findings) ==
    [kind |-> kind, rule_id |-> rule_id, category |-> category,
     weight |-> weight, findings |-> findings]

\* rule.evaluate(files)
RuleEvaluate(rule, fs) ==
    LET own == IF rule.kind = "docs_only" THEN DocsOnlyEvaluate(fs)
               ELSE rule.findings
    IN  IF rule.weight = None THEN own
        ELSE WeightedEvaluate(own, rule.weight[1])

\* build_rules(objective_name='feature_oneshot'): the selected ids with
\* their weights, the dropped ones left out
default_rules ==
    LET packs == resolve_active_packs(S_feature_oneshot, None, None).value[1]
        weights == build_category_weights(S_feature_oneshot, None).value[1]
        weight_of(id) == Get(weights, SpecById(id).category, Float(1))
        kept == SelectSeq(SelectedIds(None, None, packs),
                          LAMBDA id : WeightVerdict(weight_of(id)) # "drop")
    IN  [i \in 1..Len(kept) |->
            BuiltRule(kept[i],
                      IF WeightVerdict(weight_of(kept[i])) = "plain" THEN None
                      ELSE Some(weight_of(kept[i])))]

\* the rule objects of default_rules(), where found[id] is what the
\* evaluate of the rule class of id returns on the files at hand
DefaultRuleObjects(found) ==
    [i \in 1..Len(default_rules) |->
        RuleObject(IF default_rules[i].rule_id = S_docs_only
                   THEN "docs_only" ELSE "fixed",
                   default_rules[i].rule_id, None, default_rules[i].weight,
                   Get(found, default_rules[i].rule_id, << >>))]

(***************************************************************************)
(* diff_ai/scoring.py: score_files.                                        *)
(***************************************************************************)
\* Mutant: no lower bound.
clamp_NoFloor(value) == Min2(100, value)

\* _clamp
clamp(value) == Max2(0, Min2(100, value))

HunkScore(header) == [header |-> header, score |-> 0, findings |-> << >>]

FileScore(path, hunks) ==
    [path |-> path, score |-> 0, hunks |-> hunks, findings |-> << >>]

\* _init_file_scores
init_file_scores(fs) ==
    [i \in 1..Len(fs) |->
        FileScore(CanonicalPath(fs[i]),
                  [k \in 1..Len(fs[i].hunks) |->
                      HunkScore(fs[i].hunks[k].header)])]

\* file_map.get(path): the position of the FileScore the dict holds for
\* path, the last one of that path; 0 for None
FileMapGet(scored, path) ==
    IF \E i \in 1..Len(scored) : scored[i].path = path
    THEN CHOOSE i \in 1..Len(scored) :
            /\ scored[i].path = path
            /\ \A j \in (i + 1)..Len(scored) : scored[j].path # path
    ELSE 0

\* the finding is added to the FileScore at position k and, where its hunk
\* index is in range, to that HunkScore
AddToFile(scored, k, finding, ps) ==
    LET s1 == [scored EXCEPT ![k].score = @ + finding.points,
                             ![k].findings = Append(@, finding)]
    IN  IF /\ ps.kind = "hunk"
           /\ ps.hunk_index # None
           /\ 0 <= ps.hunk_index[1]
           /\ ps.hunk_index[1] < Len(scored[k].hunks)
        THEN [s1 EXCEPT
                 ![k].hunks[ps.hunk_index[1] + 1].score = @ + finding.points,
                 ![k].hunks[ps.hunk_index[1] + 1].findings =
                     Append(@, finding)]
        ELSE s1

\* one iteration of the loop over all_findings
ProjectFinding(scored, finding) ==
    LET ps == parse_scope(finding.scope)
    IN  IF ps.kind = "overall" THEN scored
        ELSE IF FileMapGet(scored, ps.path) = 0 THEN scored
        ELSE AddToFile(scored, FileMapGet(scored, ps.path), finding, ps)

\* the loop over all_findings
RECURSIVE ProjectAll(_, _, _)
ProjectAll(scored, findings, n) ==
    IF n = 0 THEN scored
    ELSE ProjectFinding(ProjectAll(scored, findings, n - 1), findings[n])

\* the last loop of score_files
ClampAll(scored) ==
    [i \in 1..Len(scored) |->
        [scored[i] EXCEPT
            !.score = clamp(@),
            !.hunks = [k \in 1..Len(scored[i].hunks) |->
                          [scored[i].hunks[k] EXCEPT !.score = clamp(@)]]]]

\* all_findings of score_files: every rule evaluated, in order
RECURSIVE EvaluateAll(_, _, _)
EvaluateAll(rules, fs, n) ==
    IF n = 0 THEN << >>
    ELSE EvaluateAll(rules, fs, n - 1) \o RuleEvaluate(rules[n], fs)

\* the locals of parse_unified_diff before its loop
ParserStart ==
    [files |-> << >>, current_file |-> None, current_hunk |-> None,
     old_lineno |-> None, new_lineno |-> None]

\* the loop of parse_unified_diff over the lines left, and the final
\* flush_file; None where an iteration raises
RECURSIVE ParseFrom(_, _)
ParseFrom(st, lines) ==
    IF lines = << >> THEN Some(flush_file(st).files)
    ELSE IF LoopBody(st, Head(lines)) = None THEN None
    ELSE ParseFrom(LoopBody(st, Head(lines))[1], Tail(lines))

\* parse_unified_diff over the lines of the text
parse_unified_diff(lines) == ParseFrom(ParserStart, lines)

\* '@@ -1 +1 @@'
L_hunk_one == << 64, 64, 32, 45, 49, 32, 43, 49, 32, 64, 64 >>

\* '@@ -9 +9 @@'
L_hunk_nine == << 64, 64, 32, 45, 57, 32, 43, 57, 32, 64, 64 >>

\* 'docs/guide.md'
S_docs_guide_md == << 100, 111, 99, 115, 47, 103, 117, 105, 100, 101, 46, 109, 100 >>

\* 'README.md'
S_README_md == << 82, 69, 65, 68, 77, 69, 46, 109, 100 >>

\* 'src/a.py'
S_src_a_py == << 115, 114, 99, 47, 97, 46, 112, 121 >>

\* the unified diff of a one-line replacement in the file at path
ReplaceDiff(path) ==
    << S_diff_git_sp \o S_a_slash \o path \o << 32 >> \o S_b_slash \o path,
       S_minus3_sp \o S_a_slash \o path,
       S_plus3_sp \o S_b_slash \o path,
       L_hunk_one, L_del, L_add >>

\* docs/guide.md alone; docs/guide.md and README.md; src/a.py alone;
\* src/a.py with two hunks and docs/guide.md; src/a.py twice; no file
DocsText == ReplaceDiff(S_docs_guide_md)

DocsPairText == ReplaceDiff(S_docs_guide_md) \o ReplaceDiff(S_README_md)

SourceText == ReplaceDiff(S_src_a_py)

MixedText ==
    ReplaceDiff(S_src_a_py) \o << L_hunk_nine, L_del, L_add >>
    \o ReplaceDiff(S_docs_guide_md)

RepeatedText == ReplaceDiff(S_src_a_py) \o ReplaceDiff(S_src_a_py)

EmptyText == << >>

(***************************************************************************)
(* The state.                                                              *)
(***************************************************************************)
(***************************************************************************)
(* diff_ai/git.py and diff_ai/review_mode.py: the ai-task review mode.     *)
(* A tree is what git hashes: the content of each file.  A tree hash is    *)
(* carried by its tree, since git names equal trees by equal hashes.  The  *)
(* state file is kept apart from the other files: state is None, or the    *)
(* version of the text the state file held.                                *)
(***************************************************************************)
Tree(tree_files, state) == [files |-> tree_files, state |-> state]

\* EMPTY_TREE_HASH, the hash of the tree without entries
EMPTY_TREE_HASH == Tree(EmptyTable, None)

\* 'src/new_repo.py'
S_src_new_repo_py == << 115, 114, 99, 47, 110, 101, 119, 95, 114, 101, 112, 111, 46, 112, 121 >>

\* '.diff-ai-task-state.json'
S_state_file == << 46, 100, 105, 102, 102, 45, 97, 105, 45, 116, 97, 115, 107, 45, 115, 116, 97, 116, 101, 46, 106, 115, 111, 110 >>

\* the paths and the contents of the files of the working tree
WorktreePaths == { S_src_new_repo_py }

FileContents == { 1, 2 }

\* every working tree
Worktrees ==
    UNION { [P -> FileContents] : P \in SUBSET WorktreePaths }

\* how the state file lies to the repository: lexically_under, whether
\* state_path.relative_to(repo) succeeds; in_worktree, whether the file is
\* a file of the repository's working tree
StatePath(lexically_under, in_worktree) ==
    [lexically_under |-> lexically_under, in_worktree |-> in_worktree]

\* what json.loads makes of the state file: a dict with the key last_tree
\* (an Optional tree hash; None when the value is no non-empty string), a
\* value that is no dict, or no JSON at all
StateDict(last_tree) == [kind |-> "dict", version |-> 1, last_tree |-> last_tree]

StateList == [kind |-> "list"]

StateGarbage == [kind |-> "garbage"]

\* _load_state
load_state(state) ==
    IF state = None THEN [kind |-> "dict"]
    ELSE IF state[1].kind = "garbage" THEN [kind |-> "dict"]
    ELSE IF state[1].kind # "dict" THEN [kind |-> "dict"]
    ELSE state[1]

\* state.get("last_tree") when it is a non-empty string, else None
SavedTree(state) ==
    IF "last_tree" \in DOMAIN load_state(state)
    THEN load_state(state).last_tree
    ELSE None

\* build_worktree_tree(repo, exclude_paths): git add -A into an empty index,
\* git rm --cached of the excluded paths, git write-tree.  The result is
\* Raised when git rm is given a path outside the repository.
build_worktree_tree(tree_files, place, state, version) ==
    IF place.lexically_under /\ ~place.in_worktree THEN Raised("git-error")
    ELSE Returned(Tree(tree_files,
                       IF place.in_worktree /\ state # None
                          /\ ~place.lexically_under
                       THEN Some(version)
                       ELSE None))

\* the tree git add -A stages for a commit
StagedTree(tree_files, place, state, version) ==
    Tree(tree_files,
         IF place.in_worktree /\ state # None THEN Some(version) ELSE None)

\* get_tree_for_revision(repo, head) for the head of get_head_revision,
\* EMPTY_TREE_HASH without a commit
HeadTree(head) == IF head = None THEN EMPTY_TREE_HASH ELSE head[1]

\* _resolve_previous_ai_task_tree; known are the trees git can diff
resolve_previous_ai_task_tree(state, head, known) ==
    IF SavedTree(state) # None /\ SavedTree(state)[1] \in known
    THEN SavedTree(state)[1]
    ELSE HeadTree(head)

\* get_diff_between_trees: the paths of the diff text's file records
get_diff_between_trees(base_tree, head_tree) ==
    { path \in DOMAIN base_tree.files \cup DOMAIN head_tree.files :
        \/ path \notin DOMAIN base_tree.files
        \/ path \notin DOMAIN head_tree.files
        \/ base_tree.files[path] # head_tree.files[path] }
    \cup (IF base_tree.state # head_tree.state THEN {S_state_file} ELSE {})

\* class ResolvedDiffInput
ResolvedDiffInput(diff_text, base, head) ==
    [diff_text |-> diff_text, base |-> base, head |-> head,
     review_mode |-> "ai-task", checkpoint_tree |-> head]

VARIABLES
    hits,       \* the list of RuleHits of the call
    args,       \* Optional: the keyword arguments of the call
    outcome,    \* Optional: what score_rule_hits returned or raised
    baseline,   \* Optional: the outcome of the first call on this multiset
    pc,         \* "collect" | "scored"
    sweep,      \* the number of categories the sweeping generator has passed
    text,           \* the lines of diff_text.splitlines() read so far
    files,          \* parse_unified_diff: the local files
    current_file,   \* Optional FileDiff
    current_hunk,   \* Optional Hunk
    old_lineno,     \* Optional int
    new_lineno,     \* Optional int
    parse_status,   \* "reading" | "returned" | "raised"
    parsed,         \* Optional: the list parse_unified_diff returned
    extra_plugins,  \* the plugins registered besides the built-in ones
    sched_args,     \* Optional: the arguments of schedule_plugin_rules
    sched_error,    \* "" or the error schedule_plugin_rules raised
    candidate_ids,  \* schedule_plugin_rules: the local candidate_ids
    next_candidate, \* the number of candidates the loop has passed
    wrappers,       \* the local wrappers: the plugin ids wrapped, in order
    runs,           \* the local runs: the PluginRun records
    spent,          \* the local spent
    sched_pc,       \* "idle" | "loop" | "returned" | "raised"
    all_findings,   \* score_files: the local all_findings
    next_rule,      \* the number of plugin wrappers score_files has evaluated
    results,        \* what plugin.evaluate did in each of them
    last_return,    \* Optional: what the last wrapper's evaluate returned
    eval_pc,        \* "idle" | "plugins" | "scored" | "propagated"
    score_args,     \* Optional: the files and the rules score_files was given
    scored_files,   \* score_files: the local scored_files
    app_config,     \* Optional: the AppConfig of _prepare_score_context
    worktree,       \* the files of the working tree git add -A would add,
                    \* the state file apart: path -> content
    head_revision,  \* Optional: the tree of the HEAD commit
    objects,        \* the trees of the object database
    state_path,     \* how state_file lies to repo
    state_text,     \* Optional: what the state file holds
    state_version,  \* the number of distinct texts the state file has held
    resolved,       \* Optional: the ResolvedDiffInput of the latest resolution
    review_pc,      \* "idle" | "resolved" | "saved" | "raised"
    snapshot,       \* history: worktree at the latest resolution
    after_save,     \* history: Optional, the checkpoint tree that was saved
                    \* before the latest resolution, the working tree being
                    \* the one it was resolved on
    first_run,      \* history: the latest resolution found no state file
                    \* and no commit
    rules_args,     \* Optional: the arguments of build_rules or of
                    \* resolve_active_packs
    rules_error,    \* "" or the error the call raised
    rules_active,   \* the active packs resolve_active_packs returned
    selected_ids,   \* build_rules: the local selected_ids
    rule_weights,   \* build_rules: the local weights
    next_selected,  \* the number of selected ids the loop has passed
    built,          \* build_rules: the local built
    rules_pc        \* "idle" | "loop" | "returned" | "raised" | "resolved"

scoringVars == << hits, args, outcome, baseline, pc, sweep >>

parserVars ==
    << text, files, current_file, current_hunk, old_lineno, new_lineno,
       parse_status, parsed >>

schedVars ==
    << extra_plugins, sched_args, sched_error, candidate_ids, next_candidate, wrappers, runs, spent,
       sched_pc >>

projectionVars == << score_args, scored_files, app_config >>

reviewVars ==
    << worktree, head_revision, objects, state_path, state_text,
       state_version, resolved, review_pc, snapshot, after_save, first_run >>

evalVars ==
    << all_findings, next_rule, results, last_return, eval_pc, projectionVars,
       reviewVars >>

rulesVars ==
    << rules_args, rules_error, rules_active, selected_ids, rule_weights,
       next_selected, built, rules_pc >>

otherVars == << schedVars, evalVars, rulesVars >>

vars == << scoringVars, parserVars, otherVars >>

\* no call of score_rule_hits is under way
ScoringIdle ==
    /\ hits = << >>
    /\ args = None
    /\ outcome = None
    /\ baseline = None
    /\ pc = "collect"
    /\ sweep = 0

\* the locals of schedule_plugin_rules before a call
SchedulerNotCalled ==
    /\ sched_args = None
    /\ sched_error = ""
    /\ candidate_ids = << >>
    /\ next_candidate = 0
    /\ wrappers = << >>
    /\ runs = << >>
    /\ spent = Float(0)
    /\ sched_pc = "idle"

\* schedule_plugin_rules has not been called
SchedulerIdle ==
    /\ extra_plugins = << >>
    /\ SchedulerNotCalled

\* score_files has not been called
ScoreFilesNotCalled ==
    /\ all_findings = << >>
    /\ next_rule = 0
    /\ results = << >>
    /\ last_return = None
    /\ eval_pc = "idle"
    /\ score_args = None
    /\ scored_files = << >>
    /\ app_config = None

\* no ai-task resolution takes place: an empty repository without commits
ReviewIdle ==
    /\ worktree = EmptyTable
    /\ head_revision = None
    /\ objects = {EMPTY_TREE_HASH}
    /\ state_path = StatePath(TRUE, TRUE)
    /\ state_text = None
    /\ state_version = 0
    /\ resolved = None
    /\ review_pc = "idle"
    /\ snapshot = EmptyTable
    /\ after_save = None
    /\ first_run = FALSE

EvalIdle == ScoreFilesNotCalled /\ ReviewIdle

\* neither build_rules nor resolve_active_packs has been called
RulesIdle ==
    /\ rules_args = None
    /\ rules_error = ""
    /\ rules_active = {}
    /\ selected_ids = << >>
    /\ rule_weights = EmptyTable
    /\ next_selected = 0
    /\ built = << >>
    /\ rules_pc = "idle"

OthersIdle == SchedulerIdle /\ EvalIdle /\ RulesIdle

\* parse_unified_diff has been entered: the locals before the loop
ParserEntered ==
    /\ text = << >>
    /\ files = << >>
    /\ current_file = None
    /\ current_hunk = None
    /\ old_lineno = None
    /\ new_lineno = None
    /\ parse_status = "reading"
    /\ parsed = None

InitScoring == ScoringIdle /\ ParserEntered /\ OthersIdle

\* A rule emits one more hit for the call to come.
EmitHit(h) ==
    /\ pc = "collect"
    /\ args = None
    /\ Len(hits) < MaxHits
    /\ hits' = Append(hits, h)
    /\ UNCHANGED << args, outcome, baseline, pc, sweep, parserVars, otherVars >>

\* score_rule_hits(hits, **a): the first call on a list draws the arguments,
\* a call after a reordering repeats them.
ScoreRuleHits(a) ==
    /\ pc = "collect"
    /\ args = None \/ args = Some(a)
    /\ args' = Some(a)
    /\ outcome' = Some(score_rule_hits(hits, a))
    /\ baseline' = IF baseline = None THEN outcome' ELSE baseline
    /\ pc' = "scored"
    /\ UNCHANGED << hits, sweep, parserVars, otherVars >>

\* The caller passes the same multiset in another order: two neighbours
\* are exchanged, and the list is scored again.
Reorder(i) ==
    /\ pc = "scored"
    /\ i \in 1..(Len(hits) - 1)
    /\ hits[i] # hits[i + 1]
    /\ hits' = [hits EXCEPT ![i] = hits[i + 1], ![i + 1] = hits[i]]
    /\ outcome' = None
    /\ pc' = "collect"
    /\ UNCHANGED << args, baseline, sweep, parserVars, otherVars >>

NextScoring ==
    \/ \E h \in HitUniverse : EmitHit(h)
    \/ \E a \in CallArgs : ScoreRuleHits(a)
    \/ \E i \in 1..MaxHits : Reorder(i)

SpecScoring == InitScoring /\ [][NextScoring]_vars

(***************************************************************************)
(* A second generator of hits: the rules are evaluated in a fixed order,   *)
(* one per category label, and each emits nothing, a small or a large      *)
(* finding.  The list is scored with every default.                        *)
(***************************************************************************)
\* the labels in the order of the sweep; the last is no category
SweepLabels ==
    << S_logic, S_security, S_integration, S_test_adequacy, S_style,
       S_performance, S_bogus >>

SweepPoints == {2, 40}

DefaultArgs ==
    [caps |-> None, weights |-> None, rule_caps |-> None,
     scale |-> DEFAULT_SCALE, top_n |-> 5]

InitSweep == ScoringIdle /\ ParserEntered /\ OthersIdle

\* The next rule emits a finding of p points.
SweepEmit(p) ==
    /\ pc = "collect"
    /\ sweep < Len(SweepLabels)
    /\ hits' = Append(hits, RuleHit(SweepLabels[sweep + 1],
                                    SweepLabels[sweep + 1], p, "global",
                                    None, None, S_m))
    /\ sweep' = sweep + 1
    /\ UNCHANGED << args, outcome, baseline, pc, parserVars, otherVars >>

\* The next rule emits nothing.
SweepSkip ==
    /\ pc = "collect"
    /\ sweep < Len(SweepLabels)
    /\ sweep' = sweep + 1
    /\ UNCHANGED << hits, args, outcome, baseline, pc, parserVars, otherVars >>

\* score_rule_hits(hits)
SweepScore ==
    /\ pc = "collect"
    /\ args' = Some(DefaultArgs)
    /\ outcome' = Some(score_rule_hits(hits, DefaultArgs))
    /\ baseline' = outcome'
    /\ pc' = "scored"
    /\ UNCHANGED << hits, sweep, parserVars, otherVars >>

NextSweep ==
    \/ \E p \in SweepPoints : SweepEmit(p)
    \/ SweepSkip
    \/ SweepScore

SpecSweep == InitSweep /\ [][NextSweep]_vars

(***************************************************************************)
(* parse_unified_diff as a state machine: one step per line of the text.   *)
(***************************************************************************)
InitParser == ScoringIdle /\ ParserEntered /\ OthersIdle

\* the locals of the loop, as one record
Locals ==
    [files |-> files, current_file |-> current_file,
     current_hunk |-> current_hunk, old_lineno |-> old_lineno,
     new_lineno |-> new_lineno]

\* The loop reads the next line of the text.
ReadLine(raw_line) ==
    /\ parse_status = "reading"
    /\ Len(text) < MaxLines
    /\ text' = Append(text, raw_line)
    /\ LET next == LoopBody(Locals, raw_line)
       IN  IF next = None
           THEN /\ parse_status' = "raised"
                /\ UNCHANGED << files, current_file, current_hunk, old_lineno,
                                new_lineno, parsed >>
           ELSE /\ files' = next[1].files
                /\ current_file' = next[1].current_file
                /\ current_hunk' = next[1].current_hunk
                /\ old_lineno' = next[1].old_lineno
                /\ new_lineno' = next[1].new_lineno
                /\ UNCHANGED << parse_status, parsed >>
    /\ UNCHANGED << scoringVars, otherVars >>

\* The text is exhausted: flush_file() and return files.
EndOfText ==
    /\ parse_status = "reading"
    /\ LET last == flush_file(Locals)
       IN  /\ files' = last.files
           /\ current_file' = last.current_file
           /\ current_hunk' = last.current_hunk
           /\ parsed' = Some(last.files)
    /\ parse_status' = "returned"
    /\ UNCHANGED << text, old_lineno, new_lineno, scoringVars, otherVars >>

NextParser ==
    \/ \E l \in LineUniverse : ReadLine(l)
    \/ EndOfText

SpecParser == InitParser /\ [][NextParser]_vars

(***************************************************************************)
(* schedule_plugin_rules as a state machine: the checks before the loop,   *)
(* one step per iteration of the loop, the return.                         *)
(***************************************************************************)
\* the plugins that may be registered besides the built-in ones
ExtraRegistries == { << >>, << ExtraPluginA, ExtraPluginB >> }

FeatureOneshotPacks == {S_logic, S_integration, S_test_adequacy, S_quality, S_profile}

\* the arguments the model draws for a call
ScheduleArgs ==
    [include_builtin : BOOLEAN,
     active_packs : { {}, {S_security}, FeatureOneshotPacks,
                      FeatureOneshotPacks \cup {S_security} },
     mode : {S_fast, S_standard, S_deep, S_FAST_upper, S_turbo},
     budget_seconds : {0, 1, 4, 15},
     enabled_plugin_ids :
         { None, Some(<< >>),
           Some(<< S_network_exposure_probe, S_deferred_work_markers,
                   S_network_exposure_probe, S_cross_layer_touchpoints >>),
           Some(<< S_extra_b, S_cross_layer_touchpoints, S_extra_a, S_extra_b >>),
           Some(<< S_deferred_work_markers, S_no_such_plugin >>) },
     disabled_plugin_ids :
         { None, Some(<< S_cross_layer_touchpoints >>),
           Some(<< S_no_such_plugin >>) }]

InitScheduler ==
    /\ ScoringIdle /\ ParserEntered
    /\ extra_plugins \in ExtraRegistries
    /\ SchedulerNotCalled
    /\ EvalIdle
    /\ RulesIdle

\* the infos of the call under way
CallInfos == list_plugin_info(sched_args[1].include_builtin, extra_plugins)

\* schedule_plugin_rules is called: everything before the loop
ScheduleEnter(a) ==
    /\ sched_pc = "idle"
    /\ sched_args' = Some(a)
    /\ LET resolved_mode == Lower(a.mode)
           infos == list_plugin_info(a.include_builtin, extra_plugins)
       IN  IF resolved_mode \notin DOMAIN MODE_MAX_PLUGIN_COST_SECONDS
           THEN /\ sched_pc' = "raised"
                /\ sched_error' = "unknown-mode"
                /\ UNCHANGED candidate_ids
           ELSE IF a.budget_seconds <= 0
           THEN /\ sched_pc' = "raised"
                /\ sched_error' = "invalid-budget"
                /\ UNCHANGED candidate_ids
           ELSE IF infos = << >>
           THEN /\ sched_pc' = "returned"
                /\ UNCHANGED << sched_error, candidate_ids >>
           ELSE IF UnknownPluginIds(infos, a.enabled_plugin_ids,
                                    a.disabled_plugin_ids) # {}
           THEN /\ sched_pc' = "raised"
                /\ sched_error' = "unknown-plugin-ids"
                /\ UNCHANGED candidate_ids
           ELSE /\ sched_pc' = "loop"
                /\ candidate_ids' = CandidateIds(infos, a.enabled_plugin_ids,
                                                 a.disabled_plugin_ids)
                /\ UNCHANGED sched_error
    /\ UNCHANGED << extra_plugins, next_candidate, wrappers, runs, spent,
                    scoringVars, parserVars, evalVars, rulesVars >>

\* Mutant: a candidate that fails a gate leaves no record.
ScheduleStep_SkippedUnrecorded ==
    /\ sched_pc = "loop"
    /\ next_candidate < Len(candidate_ids)
    /\ LET a == sched_args[1]
           info == InfoById(CallInfos, candidate_ids[next_candidate + 1])
           reason == AdmissionGate(info, a.active_packs, Lower(a.mode), spent,
                                   a.budget_seconds)
       IN  IF reason = S_selected
           THEN /\ spent' = RAdd(spent, info.estimated_cost_seconds)
                /\ wrappers' = Append(wrappers, info.plugin_id)
                /\ runs' = Append(runs, PluginRun(info, "scheduled", reason))
           ELSE UNCHANGED << spent, wrappers, runs >>
    /\ next_candidate' = next_candidate + 1
    /\ UNCHANGED << extra_plugins, sched_args, sched_error, candidate_ids,
                    sched_pc, scoringVars, parserVars, evalVars, rulesVars >>

\* one iteration of the loop over candidate_ids
ScheduleStep ==
    /\ sched_pc = "loop"
    /\ next_candidate < Len(candidate_ids)
    /\ LET a == sched_args[1]
           info == InfoById(CallInfos, candidate_ids[next_candidate + 1])
           reason == AdmissionGate(info, a.active_packs, Lower(a.mode), spent,
                                   a.budget_seconds)
       IN  IF reason = S_selected
           THEN /\ spent' = RAdd(spent, info.estimated_cost_seconds)
                /\ wrappers' = Append(wrappers, info.plugin_id)
                /\ runs' = Append(runs, PluginRun(info, "scheduled", reason))
           ELSE /\ runs' = Append(runs, PluginRun(info, "skipped", reason))
                /\ UNCHANGED << spent, wrappers >>
    /\ next_candidate' = next_candidate + 1
    /\ UNCHANGED << extra_plugins, sched_args, sched_error, candidate_ids,
                    sched_pc, scoringVars, parserVars, evalVars, rulesVars >>

\* the loop is over: return (wrappers, runs)
ScheduleReturn ==
    /\ sched_pc = "loop"
    /\ next_candidate = Len(candidate_ids)
    /\ sched_pc' = "returned"
    /\ UNCHANGED << extra_plugins, sched_args, sched_error, candidate_ids,
                    next_candidate, wrappers, runs, spent, scoringVars,
                    parserVars, evalVars, rulesVars >>

NextScheduler ==
    \/ \E a \in ScheduleArgs : ScheduleEnter(a)
    \/ ScheduleStep
    \/ ScheduleReturn

SpecScheduler == InitScheduler /\ [][NextScheduler]_vars

(***************************************************************************)
(* score_files over the rules of build_rules and the scheduled plugins.    *)
(***************************************************************************)
\* the calls of schedule_plugin_rules that score_files is followed after
EvaluateArgs ==
    { a \in ScheduleArgs :
        /\ a.include_builtin
        /\ a.active_packs = FeatureOneshotPacks \cup {S_security}
        /\ a.mode \in {S_standard, S_deep}
        /\ a.budget_seconds \in {4, 15}
        /\ a.enabled_plugin_ids = None
        /\ a.disabled_plugin_ids = None }

\* what the rules of build_rules may find
RuleFindings ==
    { << >>, << Finding(S_magnitude, 16, S_m, S_x, S_overall, S_y) >> }

\* what plugin.evaluate may do: return a list of findings, raise an
\* exception whose class derives from Exception, raise one whose class
\* derives from BaseException only
PluginResults(rule_id) ==
    { [raised |-> None, findings |-> << >>],
      [raised |-> None,
       findings |-> << Finding(rule_id, 9, S_x, S_m, S_overall, S_g),
                       Finding(rule_id, 10, S_y, S_m, S_file_f, S_g) >>],
      [raised |-> Some(Exc(TRUE, S_RuntimeError, S_boom)), findings |-> << >>],
      [raised |-> Some(Exc(FALSE, S_SystemExit, S_3)), findings |-> << >>] }

\* int((time.perf_counter() - start) * 1000)
ElapsedValues == {0, 3}

\* the index in runs of the record of a plugin
RunIndex(plugin_id) == CHOOSE i \in 1..Len(runs) : runs[i].plugin_id = plugin_id

\* the rules score_files is given: [*rules, *plugin_rules]
ActiveRules ==
    << ActiveRule(S_magnitude, None) >>
    \o [k \in 1..Len(wrappers) |->
            ActiveRule(runs[RunIndex(wrappers[k])].rule_id, None)]

\* the rule_id of the wrapper that is evaluated next
NextRuleId ==
    IF eval_pc = "plugins" /\ next_rule < Len(wrappers)
    THEN runs[RunIndex(wrappers[next_rule + 1])].rule_id
    ELSE << >>

\* score_files is entered and the rules of build_rules are evaluated
ScoreFilesEnter(fs) ==
    /\ sched_pc = "returned"
    /\ eval_pc = "idle"
    /\ all_findings' = fs
    /\ eval_pc' = "plugins"
    /\ score_args' = Some([files |-> parse_unified_diff(ReplaceDiff(S_f))[1],
                           rules |-> ActiveRules])
    /\ UNCHANGED << next_rule, results, last_return, scored_files, app_config,
                    reviewVars,
                    schedVars, scoringVars, parserVars, rulesVars >>

\* the evaluate of the next plugin wrapper
WrapperEvaluate(result, elapsed_ms) ==
    /\ eval_pc = "plugins"
    /\ next_rule < Len(wrappers)
    /\ runs' = [runs EXCEPT ![RunIndex(wrappers[next_rule + 1])] =
                    FinishRun(@, result, elapsed_ms)]
    /\ results' = Append(results, result)
    /\ last_return' = WrapperReturn(result)
    /\ IF WrapperReturn(result) = None
       THEN /\ eval_pc' = "propagated"
            /\ UNCHANGED << all_findings, next_rule >>
       ELSE /\ all_findings' = all_findings \o WrapperReturn(result)[1]
            /\ next_rule' = next_rule + 1
            /\ UNCHANGED eval_pc
    /\ UNCHANGED << extra_plugins, sched_args, sched_error, candidate_ids,
                    next_candidate, wrappers, spent, sched_pc, projectionVars,
                    reviewVars, scoringVars, parserVars, rulesVars >>

\* the rule hits of score_files
RuleHitsOf(findings, categories) ==
    [i \in 1..Len(findings) |-> finding_to_rule_hit(findings[i], categories)]

\* every rule is evaluated: the findings are converted and scored
ScoreFilesAggregate ==
    /\ eval_pc = "plugins"
    /\ next_rule = Len(wrappers)
    /\ pc = "collect"
    /\ hits' = RuleHitsOf(all_findings, rule_categories(score_args[1].rules))
    /\ args' = Some(DefaultArgs)
    /\ outcome' = Some(score_rule_hits(hits', DefaultArgs))
    /\ baseline' = outcome'
    /\ pc' = "scored"
    /\ scored_files' = ClampAll(ProjectAll(init_file_scores(score_args[1].files),
                                           all_findings, Len(all_findings)))
    /\ eval_pc' = "scored"
    /\ UNCHANGED << sweep, all_findings, next_rule, results, last_return,
                    score_args, app_config, reviewVars, schedVars,
                    parserVars, rulesVars >>

NextEvaluate ==
    \/ \E a \in EvaluateArgs : ScheduleEnter(a)
    \/ ScheduleStep
    \/ ScheduleReturn
    \/ \E fs \in RuleFindings : ScoreFilesEnter(fs)
    \/ \E result \in PluginResults(NextRuleId), elapsed_ms \in ElapsedValues :
          WrapperEvaluate(result, elapsed_ms)
    \/ ScoreFilesAggregate

InitEvaluate == ScoringIdle /\ ParserEntered /\ OthersIdle

SpecEvaluate == InitEvaluate /\ [][NextEvaluate]_vars

(***************************************************************************)
(* score_diff_text: a diff text is parsed and score_files runs over the    *)
(* files with the rules the caller passes, or with default_rules().        *)
(***************************************************************************)
\* 'max_rule'
S_max_rule == << 109, 97, 120, 95, 114, 117, 108, 101 >>

\* 'probe'
S_probe == << 112, 114, 111, 98, 101 >>

\* 'Huge risk'
S_Huge_risk == << 72, 117, 103, 101, 32, 114, 105, 115, 107 >>

\* 'file:src/a.py'
S_file_src_a_py == << 102, 105, 108, 101, 58, 115, 114, 99, 47, 97, 46, 112, 121 >>

\* 'hunk:src/a.py:0'
S_hunk_src_a_py_0 == << 104, 117, 110, 107, 58, 115, 114, 99, 47, 97, 46, 112, 121, 58, 48 >>

\* 'hunk:src/a.py:1'
S_hunk_src_a_py_1 == << 104, 117, 110, 107, 58, 115, 114, 99, 47, 97, 46, 112, 121, 58, 49 >>

\* 'hunk:src/a.py:7'
S_hunk_src_a_py_7 == << 104, 117, 110, 107, 58, 115, 114, 99, 47, 97, 46, 112, 121, 58, 55 >>

\* 'hunk:docs/guide.md:0'
S_hunk_docs_guide_md_0 == << 104, 117, 110, 107, 58, 100, 111, 99, 115, 47, 103, 117, 105, 100, 101, 46, 109, 100, 58, 48 >>

\* 'file:nope.py'
S_file_nope_py == << 102, 105, 108, 101, 58, 110, 111, 112, 101, 46, 112, 121 >>

\* 'file:docs/guide.md'
S_file_docs_guide_md == << 102, 105, 108, 101, 58, 100, 111, 99, 115, 47, 103, 117, 105, 100, 101, 46, 109, 100 >>

\* Longest list of findings the probing rule returns.
MaxFindings == 2

\* the rule of the test of the clamp: one overall finding of many points
MaxRule(points, category) ==
    RuleObject("fixed", S_max_rule, category, None,
               << Finding(S_max_rule, points, S_Huge_risk, S_x, S_overall,
                          S_y) >>)

\* what a rule outside the registry may find in src/a.py and docs/guide.md
ProbeScopes ==
    { S_overall, S_file_src_a_py, S_hunk_src_a_py_0, S_hunk_src_a_py_1,
      S_hunk_src_a_py_7, S_hunk_docs_guide_md_0, S_file_nope_py }

ProbePoints == {70, -7}

ProbeFindings ==
    { Finding(S_probe, p, S_m, S_x, scope, S_y) :
        p \in ProbePoints, scope \in ProbeScopes }

\* the lists of at most n findings
RECURSIVE ListsUpTo(_, _)
ListsUpTo(S, n) ==
    IF n = 0 THEN { << >> }
    ELSE ListsUpTo(S, n - 1)
         \cup { Append(l, x) : l \in { m \in ListsUpTo(S, n - 1) :
                                          Len(m) = n - 1 }, x \in S }

ProbeRule(findings) ==
    RuleObject("fixed", S_probe, Some(S_security), None, findings)

\* the points and the weights of a rule in a _WeightedRule
WeightedPoints == {0, 1, -1, 5, -5, 25}

RuleWeights ==
    { Rat(1, 2), Rat(1, 10), Rat(23, 20), Rat(5, 2), Rat(1, 1000),
      Rat(2000000001, 2000000000) }

WeightedProbe(weight, findings) ==
    RuleObject("fixed", S_magnitude, None, Some(weight), findings)

WeightedFindings ==
    ListsUpTo({ Finding(S_magnitude, p, S_m, S_x, S_overall, S_y) :
                    p \in WeightedPoints }, 2)
    \cup { << Finding(S_magnitude, 25, S_m, S_x, S_file_src_a_py, S_g),
              Finding(S_magnitude, -5, S_y, S_m, S_hunk_src_a_py_0, S_f) >> }

\* what MagnitudeRule finds in a file of 300 changed lines or more
LargeDocsChange ==
    (S_magnitude :>
        << Finding(S_magnitude, 24, S_m, S_x, S_overall, S_y),
           Finding(S_magnitude, 12, S_m, S_x, S_file_docs_guide_md, S_y) >>)

\* the calls: the lines of the text, the rules (None for the default
\* rules) and, for the default rules other than DocsOnlyRule, what their
\* evaluate returns
ScoreCall(lines, rules, found) ==
    [lines |-> lines, rules |-> rules, found |-> found]

ScoreCalls ==
    { ScoreCall(t, None, EmptyTable) :
        t \in {DocsText, DocsPairText, SourceText, MixedText, EmptyText} }
    \cup { ScoreCall(t, None, LargeDocsChange) : t \in {DocsText, DocsPairText} }
    \cup { ScoreCall(SourceText, Some(<< MaxRule(p, c) >>), EmptyTable) :
             p \in {500, 100000}, c \in {None, Some(S_security)} }
    \cup { ScoreCall(t, Some(<< ProbeRule(fs) >>), EmptyTable) :
             t \in {MixedText, RepeatedText},
             fs \in ListsUpTo(ProbeFindings, MaxFindings) }
    \cup { ScoreCall(SourceText, Some(<< WeightedProbe(w, fs) >>), EmptyTable) :
             w \in RuleWeights, fs \in WeightedFindings }

\* active_rules of score_files
ActiveRulesOf(call) ==
    IF call.rules = None THEN DefaultRuleObjects(call.found)
    ELSE call.rules[1]

\* score_diff_text(text, rules): parse_unified_diff, then the whole of
\* score_files
ScoreDiffText(call) ==
    /\ eval_pc = "idle"
    /\ pc = "collect"
    /\ parse_unified_diff(call.lines) # None
    /\ LET fs == parse_unified_diff(call.lines)[1]
           active_rules == ActiveRulesOf(call)
           found == EvaluateAll(active_rules, fs, Len(active_rules))
           rule_hits == RuleHitsOf(found, rule_categories(active_rules))
       IN  /\ score_args' = Some([files |-> fs, rules |-> active_rules])
           /\ all_findings' = found
           /\ hits' = rule_hits
           /\ args' = Some(DefaultArgs)
           /\ outcome' = Some(score_rule_hits(rule_hits, DefaultArgs))
           /\ baseline' = outcome'
           /\ pc' = "scored"
           /\ scored_files' =
                  ClampAll(ProjectAll(init_file_scores(fs), found, Len(found)))
           /\ eval_pc' = "scored"
    /\ UNCHANGED << sweep, next_rule, results, last_return, app_config,
                    reviewVars,
                    schedVars, parserVars, rulesVars >>

NextScoreFiles == \E call \in ScoreCalls : ScoreDiffText(call)

InitScoreFiles == ScoringIdle /\ ParserEntered /\ OthersIdle

SpecScoreFiles == InitScoreFiles /\ [][NextScoreFiles]_vars

(***************************************************************************)
(* build_rules and resolve_active_packs.                                   *)
(***************************************************************************)
\* the arguments a caller may pass
BuildArgs ==
    [objective_name :
        {S_feature_oneshot, S_security_strict, S_Security_Strict_mixed, S_bogus},
     enabled_rule_ids :
        {None, Some(<< >>),
         Some(<< S_dangerous_patterns, S_magnitude, S_dangerous_patterns,
                 S_docs_only >>),
         Some(<< S_no_such_rule >>)},
     disabled_rule_ids :
        {None, Some(<< S_magnitude >>), Some(<< S_critical_paths, S_docs_only >>)},
     enabled_packs : {None, Some(<< S_security >>), Some(<< S_bogus >>)},
     disabled_packs :
        {None, Some(<< S_security, S_quality >>), Some(<< S_bogus, S_logic >>)},
     category_weights :
        {None,
         Some((S_security :> Float(0))),
         Some((S_security :> Float(-1))),
         Some((S_quality :> Rat(1, 2000000000)) @@ (S_integration :> Float(2))),
         Some((S_logic :> Rat(-1, 2000000000))),
         Some((S_bogus :> Float(1)))}]

InitRules == ScoringIdle /\ ParserEntered /\ OthersIdle

\* the ids of the two rule lists that the registry does not know
UnknownRuleIds(a) ==
    (Elems(OrElse(a.enabled_rule_ids, << >>))
     \cup Elems(OrElse(a.disabled_rule_ids, << >>)))
    \ Elems(RuleIds(ordered_rule_specs))

\* build_rules finds nothing to raise before its loop
BuildRulesProceeds(a, packs, w) ==
    /\ rules_pc' = "loop"
    /\ rules_active' = packs.value[1]
    /\ selected_ids' = SelectedIds(a.enabled_rule_ids, a.disabled_rule_ids,
                                   packs.value[1])
    /\ rule_weights' = w.value[1]
    /\ UNCHANGED rules_error

BuildRulesRaises(error) ==
    /\ rules_pc' = "raised"
    /\ rules_error' = error
    /\ UNCHANGED << rules_active, selected_ids, rule_weights >>

\* build_rules is called: everything before the loop
BuildRulesEnter(a) ==
    /\ rules_pc = "idle"
    /\ rules_args' = Some(a)
    /\ IF UnknownRuleIds(a) # {} THEN BuildRulesRaises("unknown-rule-ids")
       ELSE IF resolve_active_packs(a.objective_name, a.enabled_packs,
                                    a.disabled_packs).raised # ""
       THEN BuildRulesRaises(resolve_active_packs(a.objective_name,
                                 a.enabled_packs, a.disabled_packs).raised)
       ELSE IF build_category_weights(a.objective_name,
                                      a.category_weights).raised # ""
       THEN BuildRulesRaises(build_category_weights(a.objective_name,
                                 a.category_weights).raised)
       ELSE BuildRulesProceeds(a,
                resolve_active_packs(a.objective_name, a.enabled_packs,
                                     a.disabled_packs),
                build_category_weights(a.objective_name, a.category_weights))
    /\ UNCHANGED << next_selected, built, scoringVars, parserVars, schedVars,
                    evalVars >>

\* the weight the loop looks up for a rule id
WeightOfRule(rule_id) == Get(rule_weights, SpecById(rule_id).category, Float(1))

\* one iteration of the loop over selected_ids
BuildRulesStep ==
    /\ rules_pc = "loop"
    /\ next_selected < Len(selected_ids)
    /\ LET rule_id == selected_ids[next_selected + 1]
           verdict == WeightVerdict(WeightOfRule(rule_id))
       IN  IF verdict = "raise"
           THEN /\ rules_pc' = "raised"
                /\ rules_error' = "invalid-weight"
                /\ UNCHANGED << built, next_selected >>
           ELSE /\ built' = IF verdict = "drop" THEN built
                            ELSE IF verdict = "plain"
                            THEN Append(built, BuiltRule(rule_id, None))
                            ELSE Append(built,
                                   BuiltRule(rule_id, Some(WeightOfRule(rule_id))))
                /\ next_selected' = next_selected + 1
                /\ UNCHANGED << rules_pc, rules_error >>
    /\ UNCHANGED << rules_args, rules_active, selected_ids, rule_weights,
                    scoringVars, parserVars, schedVars, evalVars >>

\* the loop is over: return built
BuildRulesReturn ==
    /\ rules_pc = "loop"
    /\ next_selected = Len(selected_ids)
    /\ rules_pc' = "returned"
    /\ UNCHANGED << rules_args, rules_error, rules_active, selected_ids,
                    rule_weights, next_selected, built, scoringVars,
                    parserVars, schedVars, evalVars >>

\* resolve_active_packs is called by itself
ResolveActivePacks(a) ==
    /\ rules_pc = "idle"
    /\ a.enabled_rule_ids = None /\ a.disabled_rule_ids = None
    /\ a.category_weights = None
    /\ rules_args' = Some(a)
    /\ rules_pc' = "resolved"
    /\ LET packs == resolve_active_packs(a.objective_name, a.enabled_packs,
                                         a.disabled_packs)
       IN  /\ rules_error' = packs.raised
           /\ rules_active' = IF packs.raised = "" THEN packs.value[1] ELSE {}
    /\ UNCHANGED << selected_ids, rule_weights, next_selected, built,
                    scoringVars, parserVars, schedVars, evalVars >>

NextRules ==
    \/ \E a \in BuildArgs : BuildRulesEnter(a)
    \/ BuildRulesStep
    \/ BuildRulesReturn
    \/ \E a \in BuildArgs : ResolveActivePacks(a)

SpecRules == InitRules /\ [][NextRules]_vars

(***************************************************************************)
(* diff_ai/standalone.py: _prepare_score_context.  The configuration is    *)
(* resolved (build_rules, resolve_active_packs, schedule_plugin_rules),    *)
(* then the diff text is parsed and score_files runs.                      *)
(***************************************************************************)
\* class AppConfig, the fields _prepare_score_context reads (include and
\* exclude are empty)
AppConfig(objective_name, rule_enable, enable_packs, category_weights, include_builtin, mode, budget_seconds, plugins_enable) ==
    [objective_name |-> objective_name, rule_enable |-> rule_enable,
     rule_disable |-> << >>, enable_packs |-> enable_packs,
     disable_packs |-> << >>, category_weights |-> category_weights,
     include_builtin |-> include_builtin, mode |-> mode,
     budget_seconds |-> budget_seconds, plugins_enable |-> plugins_enable,
     plugins_disable |-> << >>]

\* the configuration of the defaults
DefaultConfig ==
    AppConfig(S_feature_oneshot, None, << >>, EmptyTable, TRUE, S_standard,
              15, << >>)

\* the configurations a run may be given: valid ones, and one for each kind
\* of error
ContextConfigs ==
    { DefaultConfig,
      [DefaultConfig EXCEPT !.enable_packs = << S_security >>,
                            !.mode = S_deep],
      [DefaultConfig EXCEPT !.include_builtin = FALSE],
      [DefaultConfig EXCEPT !.rule_enable = Some(<< S_no_such_rule >>)],
      [DefaultConfig EXCEPT !.enable_packs = << S_bogus >>],
      [DefaultConfig EXCEPT !.category_weights = (S_bogus :> Float(1))],
      [DefaultConfig EXCEPT !.category_weights = (S_logic :> Float(-1))],
      [DefaultConfig EXCEPT !.category_weights = (S_security :> Float(-1))],
      [DefaultConfig EXCEPT !.plugins_enable = << S_no_such_plugin >>],
      [DefaultConfig EXCEPT !.plugins_enable = << S_no_such_plugin >>,
                            !.include_builtin = FALSE],
      [DefaultConfig EXCEPT !.mode = S_turbo],
      [DefaultConfig EXCEPT !.budget_seconds = 0] }

\* the arguments of _build_configured_rules_or_raise
BuildArgsOf(cfg) ==
    [objective_name |-> cfg.objective_name,
     enabled_rule_ids |-> cfg.rule_enable,
     disabled_rule_ids |-> Some(cfg.rule_disable),
     enabled_packs |-> Some(cfg.enable_packs),
     disabled_packs |-> Some(cfg.disable_packs),
     category_weights |-> Some(cfg.category_weights)]

\* the arguments of _schedule_plugins_or_raise, with the packs that
\* _resolve_active_packs_or_raise returned
ScheduleArgsOf(cfg) ==
    [include_builtin |-> cfg.include_builtin,
     active_packs |->
         resolve_active_packs(cfg.objective_name, Some(cfg.enable_packs),
                              Some(cfg.disable_packs)).value[1],
     mode |-> cfg.mode,
     budget_seconds |-> cfg.budget_seconds,
     enabled_plugin_ids |-> Some(cfg.plugins_enable),
     disabled_plugin_ids |-> Some(cfg.plugins_disable)]

\* the diff texts: a one-line replacement in f, and a hunk header that does
\* not parse
ContextTexts == { ReplaceDiff(S_f), << L_diff, L_bad >> }

\* _prepare_score_context is entered and _resolve_diff_input has returned
\* the diff text
PrepareEnter(cfg) ==
    /\ app_config = None
    /\ rules_pc = "idle" /\ sched_pc = "idle" /\ eval_pc = "idle"
    /\ app_config' = Some(cfg)
    /\ UNCHANGED << all_findings, next_rule, results, last_return, eval_pc,
                    score_args, scored_files, reviewVars, scoringVars,
                    parserVars, schedVars, rulesVars >>

\* rules = _build_configured_rules_or_raise(app_config)
PrepareBuildRules ==
    /\ app_config # None
    /\ BuildRulesEnter(BuildArgsOf(app_config[1]))

\* active_packs = _resolve_active_packs_or_raise(app_config), and
\* _schedule_plugins_or_raise(app_config, active_packs=active_packs)
PrepareSchedule ==
    /\ app_config # None
    /\ rules_pc = "returned"
    /\ ScheduleEnter(ScheduleArgsOf(app_config[1]))

\* files = parse_unified_diff(diff_text)
PrepareParse(lines) ==
    /\ app_config # None
    /\ sched_pc = "returned"
    /\ parse_status = "reading" /\ text = << >>
    /\ text' = lines
    /\ IF parse_unified_diff(lines) = None
       THEN /\ parse_status' = "raised"
            /\ UNCHANGED << files, parsed >>
       ELSE /\ parse_status' = "returned"
            /\ files' = parse_unified_diff(lines)[1]
            /\ parsed' = parse_unified_diff(lines)
    /\ UNCHANGED << current_file, current_hunk, old_lineno, new_lineno,
                    scoringVars, otherVars >>

\* the rule objects build_rules returned; found maps a rule id to the
\* findings its detection produces on the files
BuiltRuleObjects(found) ==
    [i \in 1..Len(built) |->
        RuleObject(IF built[i].rule_id = S_docs_only THEN "docs_only"
                   ELSE "fixed",
                   built[i].rule_id, None, built[i].weight,
                   Get(found, built[i].rule_id, << >>))]

\* score_files(filtered_files, rules=[*rules, *plugin_rules]) is entered
\* and the rules of build_rules are evaluated
PrepareScoreFiles(fs) ==
    /\ app_config # None
    /\ parse_status = "returned"
    /\ eval_pc = "idle"
    /\ LET rules == BuiltRuleObjects((S_magnitude :> fs))
       IN  /\ all_findings' = EvaluateAll(rules, parsed[1], Len(rules))
           /\ score_args' =
                  Some([files |-> parsed[1],
                        rules |-> rules
                           \o [k \in 1..Len(wrappers) |->
                                 ActiveRule(
                                     runs[RunIndex(wrappers[k])].rule_id,
                                     None)]])
    /\ eval_pc' = "plugins"
    /\ UNCHANGED << next_rule, results, last_return, scored_files, app_config,
                    reviewVars,
                    schedVars, scoringVars, parserVars, rulesVars >>

NextContext ==
    \/ \E cfg \in ContextConfigs : PrepareEnter(cfg)
    \/ PrepareBuildRules
    \/ BuildRulesStep
    \/ BuildRulesReturn
    \/ PrepareSchedule
    \/ ScheduleStep
    \/ ScheduleReturn
    \/ \E lines \in ContextTexts : PrepareParse(lines)
    \/ \E fs \in RuleFindings : PrepareScoreFiles(fs)
    \/ \E result \in PluginResults(NextRuleId), elapsed_ms \in ElapsedValues :
          WrapperEvaluate(result, elapsed_ms)
    \/ ScoreFilesAggregate

InitContext == ScoringIdle /\ ParserEntered /\ OthersIdle

SpecContext == InitContext /\ [][NextContext]_vars

(***************************************************************************)
(* diff_ai/review_mode.py: ai-task resolutions and checkpoints in a        *)
(* repository whose files are written and committed in between.            *)
(***************************************************************************)
\* the most texts the state file comes to hold
MaxSaves == 2

\* the latest resolution and its history are left as they are
ResolutionKept == UNCHANGED << resolved, review_pc, snapshot, after_save, first_run >>

\* _resolve_ai_task_diff(repo=repo, state_file=state_file)
ResolveAiTaskDiff ==
    LET built_tree == build_worktree_tree(worktree, state_path, state_text,
                                          state_version)
    IN  /\ review_pc \in {"idle", "resolved", "saved"}
        /\ IF built_tree.raised # ""
           THEN /\ review_pc' = "raised"
                /\ after_save' = None
                /\ first_run' = FALSE
                /\ UNCHANGED << objects, resolved, snapshot >>
           ELSE LET current_tree == built_tree.value[1]
                    previous_tree ==
                        resolve_previous_ai_task_tree(
                            state_text, head_revision,
                            objects \cup {current_tree})
                IN  /\ objects' = objects \cup {current_tree}
                    /\ resolved' =
                           Some(ResolvedDiffInput(
                                    get_diff_between_trees(previous_tree,
                                                           current_tree),
                                    previous_tree, current_tree))
                    /\ review_pc' = "resolved"
                    /\ snapshot' = worktree
                    /\ after_save' =
                           IF review_pc = "saved" /\ worktree = snapshot
                           THEN Some(resolved[1].checkpoint_tree)
                           ELSE None
                    /\ first_run' =
                           (state_text = None /\ head_revision = None)
        /\ UNCHANGED << worktree, head_revision, state_path, state_text,
                        state_version >>
        /\ UNCHANGED << all_findings, next_rule, results, last_return,
                        eval_pc, projectionVars, scoringVars, parserVars,
                        schedVars, rulesVars >>

\* save_ai_task_checkpoint(resolved.state_path, resolved.checkpoint_tree);
\* the text is the one the file holds when neither last_tree nor the second
\* of updated_at has changed
SaveAiTaskCheckpoint(same_second) ==
    /\ review_pc = "resolved"
    /\ state_version < MaxSaves
    /\ state_text' = Some(StateDict(Some(resolved[1].checkpoint_tree)))
    /\ state_version' =
           IF same_second /\ state_text' = state_text THEN state_version
           ELSE state_version + 1
    /\ review_pc' = "saved"
    /\ UNCHANGED << worktree, head_revision, objects, state_path, resolved,
                    snapshot, after_save, first_run >>
    /\ UNCHANGED << all_findings, next_rule, results, last_return, eval_pc,
                    projectionVars, scoringVars, parserVars, schedVars,
                    rulesVars >>

\* tests/helpers_git.py: write_file(repo, rel_path, content)
WriteFile(rel_path, content) ==
    /\ review_pc # "raised"
    /\ worktree' = [p \in DOMAIN worktree \cup {rel_path} |->
                       IF p = rel_path THEN content ELSE worktree[p]]
    /\ worktree' # worktree
    /\ ResolutionKept
    /\ UNCHANGED << head_revision, objects, state_path, state_text,
                    state_version >>
    /\ UNCHANGED << all_findings, next_rule, results, last_return, eval_pc,
                    projectionVars, scoringVars, parserVars, schedVars,
                    rulesVars >>

\* tests/helpers_git.py: commit_all(repo, message); git commit fails when
\* nothing is staged
CommitAll ==
    LET staged == StagedTree(worktree, state_path, state_text, state_version)
    IN  /\ review_pc # "raised"
        /\ staged # HeadTree(head_revision)
        /\ head_revision' = Some(staged)
        /\ objects' = objects \cup {staged}
        /\ ResolutionKept
        /\ UNCHANGED << worktree, state_path, state_text, state_version >>
        /\ UNCHANGED << all_findings, next_rule, results, last_return,
                        eval_pc, projectionVars, scoringVars, parserVars,
                        schedVars, rulesVars >>

NextReview ==
    \/ ResolveAiTaskDiff
    \/ \E same_second \in BOOLEAN : SaveAiTaskCheckpoint(same_second)
    \/ \E rel_path \in WorktreePaths, content \in FileContents :
          WriteFile(rel_path, content)
    \/ CommitAll

\* the trees a state file that was left behind may name: one git does not
\* know, and the one of the commit
StaleTrees(head) == { Tree((S_src_a_py :> 1), None), HeadTree(head) }

\* a repository with or without a commit, a working tree, and a state file
\* that is missing or was left behind
InitReview ==
    /\ ScoringIdle /\ ParserEntered /\ SchedulerIdle /\ RulesIdle
    /\ ScoreFilesNotCalled
    /\ worktree \in Worktrees
    /\ head_revision \in {None} \cup { Some(Tree(w, None)) : w \in {EmptyTable, worktree} }
    /\ objects = {EMPTY_TREE_HASH, HeadTree(head_revision)}
    /\ state_path \in { StatePath(u, i) : u, i \in BOOLEAN }
    /\ state_text \in {None, Some(StateGarbage), Some(StateList),
                       Some(StateDict(None))}
                      \cup { Some(StateDict(Some(t))) :
                               t \in StaleTrees(head_revision) }
    /\ state_version = 0
    /\ resolved = None
    /\ review_pc = "idle"
    /\ snapshot = worktree
    /\ after_save = None
    /\ first_run = FALSE

SpecReview == InitReview /\ [][NextReview]_vars

(***************************************************************************)
(* Claims about score_rule_hits.                                           *)
(***************************************************************************)
\* score_rule_hits has been called and has returned a ScoreBreakdown
ScoredOK == pc = "scored" /\ outcome[1].raised = ""

Breakdown == outcome[1].value[1]

\* sum of the rationals f[i] for i in S
RECURSIVE TotalRat(_, _)
TotalRat(S, f) ==
    IF S = {} THEN << 0, 1 >>
    ELSE LET i == CHOOSE x \in S : TRUE
         IN  RAdd(f[i], TotalRat(S \ {i}, f))

\* sum of the integers f[i] for i in S
RECURSIVE TotalInt(_, _)
TotalInt(S, f) ==
    IF S = {} THEN 0
    ELSE LET i == CHOOSE x \in S : TRUE
         IN  f[i] + TotalInt(S \ {i}, f)

HitIndices == 1..Len(hits)

HitPoints == [i \in HitIndices |-> hits[i].points]

\* the adjusted points and the normalized categories of the current call
CallAdjusted == adjusted_points_by_hit(hits, ActiveRuleCaps(args[1]))

CallCategories == NormalizedCategories(hits, ActiveCaps(args[1]))

\* C1: order independence.  A call on a permutation of a multiset of hits,
\* with the same arguments, returns the same ScoreBreakdown, field by field,
\* as the first call on that multiset did.
C1_OrderIndependence == pc = "scored" => outcome = baseline

\* C2: for every list of hits and every scale > 0, score_rule_hits returns,
\* and final_score_0_100 is an integer from 0 to 100.
C2_FinalScoreReturnedInRange ==
    (pc = "scored" /\ RLt(Float(0), args[1].scale))
        => /\ outcome[1].raised = ""
           /\ outcome[1].value[1].final_score_0_100 \in 0..100

\* C3: per-category cap.  For every category c of the active cap table,
\* capped_points_by_category[c] is the smaller of cap[c] and the sum of the
\* adjusted points of the hits normalized to c, so it never exceeds cap[c],
\* and raw_points_by_category[c] is the unclamped integer sum of their points.
C3_CategoryCap ==
    ScoredOK =>
        LET caps == ActiveCaps(args[1])
            adj == CallAdjusted
            cats == CallCategories
        IN  \A c \in DOMAIN caps :
                LET members == {i \in HitIndices : cats[i] = c}
                    total == TotalRat(members, adj)
                IN  /\ c \in DOMAIN Breakdown.capped_points_by_category
                    /\ Breakdown.capped_points_by_category[c]
                         = (IF RLe(total, << caps[c], 1 >>) THEN total
                            ELSE << caps[c], 1 >>)
                    /\ RLe(Breakdown.capped_points_by_category[c],
                           << caps[c], 1 >>)
                    /\ Breakdown.raw_points_by_category[c]
                         = TotalInt(members, HitPoints)

\* C3 witness: a category whose raw sum is above its cap and whose capped
\* total is the cap.
C3_Witness ==
    /\ ScoredOK
    /\ \E c \in DOMAIN Breakdown.raw_points_by_category :
          /\ Breakdown.raw_points_by_category[c] > ActiveCaps(args[1])[c]
          /\ Breakdown.capped_points_by_category[c]
               = << ActiveCaps(args[1])[c], 1 >>

WeightedCappedTotal ==
    LET w == ActiveWeights(args[1])
        capped == Breakdown.capped_points_by_category
    IN  TotalRat(DOMAIN capped,
                 [c \in DOMAIN capped |->
                     RMul(IF c \in DOMAIN w THEN w[c] ELSE w[S_unknown],
                          capped[c])])

\* C6, as stated: transformed_score is in [0, 100] for every list of hits.
\* (transformed_score is carried by its exponent, which has its sign.)
C6_TransformedInRange ==
    ScoredOK => RLe(<< 0, 1 >>, Breakdown.transformed_score)

\* C6, amended: transformed_score has the sign of the weighted sum of the
\* capped category totals: it is negative exactly when that sum is negative
\* and 0 exactly when that sum is 0; a negative transformed_score yields
\* final_score_0_100 = 0 (only the final score is clamped).
C6_TransformedSign ==
    ScoredOK =>
        /\ RLt(Breakdown.transformed_score, << 0, 1 >>)
             <=> RLt(WeightedCappedTotal, << 0, 1 >>)
        /\ Breakdown.transformed_score = << 0, 1 >>
             <=> WeightedCappedTotal = << 0, 1 >>
        /\ RLt(Breakdown.transformed_score, << 0, 1 >>)
             => Breakdown.final_score_0_100 = 0

\* C6 witness: a list of risk-reducing hits only has been scored, and its
\* transformed_score is negative.
C6_Witness ==
    /\ ScoredOK
    /\ hits # << >>
    /\ \A i \in HitIndices : hits[i].points < 0
    /\ RLt(Breakdown.transformed_score, << 0, 1 >>)
    /\ Breakdown.final_score_0_100 = 0

\* the ranking key of hit i, and key a >= key b
ClaimKey(i, contribution, adj) ==
    << contribution[i], RAbs(adj[i]), hits[i].id,
       IF hits[i].file_path = << >> THEN << >> ELSE hits[i].file_path[1],
       IF hits[i].hunk_id = << >> THEN -1 ELSE hits[i].hunk_id[1] >>

ClaimKeyGe(a, b) ==
    IF a[1] # b[1] THEN RLt(b[1], a[1])
    ELSE IF a[2] # b[2] THEN RLt(b[2], a[2])
    ELSE IF a[3] # b[3] THEN StrLt(b[3], a[3])
    ELSE IF a[4] # b[4] THEN StrLt(b[4], a[4])
    ELSE a[5] >= b[5]

\* C7: top-N reasons.  With S the hits of strictly positive contribution
\* (weight of the normalized category times adjusted points) if there is
\* one, else all hits, reasons_topN renders the first min(top_n, |S|) hits
\* of S in descending order of (contribution, |adjusted points|, rule id,
\* file path, hunk id); it is empty when top_n <= 0.
C7_TopReasons ==
    ScoredOK =>
        LET w == ActiveWeights(args[1])
            adj == CallAdjusted
            cats == CallCategories
            contribution ==
                [i \in HitIndices |->
                    RMul(IF cats[i] \in DOMAIN w THEN w[cats[i]]
                         ELSE w[S_unknown], adj[i])]
            positive == {i \in HitIndices : RLt(<< 0, 1 >>, contribution[i])}
            S == IF positive # {} THEN positive ELSE HitIndices
            top_n == args[1].top_n
            L == IF top_n <= 0 THEN 0
                 ELSE IF top_n <= Cardinality(S) THEN top_n
                 ELSE Cardinality(S)
            key == [i \in HitIndices |-> ClaimKey(i, contribution, adj)]
            reasons == Breakdown.reasons_topN
        IN  /\ Len(reasons) = L
            /\ \E idx \in [1..L -> S] :
                  /\ \A j, k \in 1..L : j # k => idx[j] # idx[k]
                  /\ \A j \in 1..(L - 1) :
                        ClaimKeyGe(key[idx[j]], key[idx[j + 1]])
                  /\ \A i \in S :
                        (\A j \in 1..L : idx[j] # i) /\ L > 0
                            => ClaimKeyGe(key[idx[L]], key[i])
                  /\ \A j \in 1..L :
                        reasons[j] = RenderReason(hits[idx[j]], cats[idx[j]],
                                                  adj[idx[j]])

\* C7 witness: three hits, one of them risk-reducing, scored with top_n = 2
\* give two reasons.
C7_Witness ==
    /\ ScoredOK
    /\ args[1].top_n = 2
    /\ Len(hits) = 3
    /\ \E i \in HitIndices : hits[i].points < 0
    /\ Len(Breakdown.reasons_topN) = 2

\* the label of hit i after strip, lower and the alias table
ClaimLabel(i) ==
    LET l == Lower(Strip(hits[i].category))
    IN  IF l = S_quality THEN S_style
        ELSE IF l = S_profile THEN S_integration
        ELSE l

\* C8: unknown-category containment.  A hit whose trimmed, lower-cased,
\* alias-mapped category is no key of the active cap table is accumulated
\* under "unknown" and nowhere else; "unknown" always has a cap and a weight
\* (the defaults when the caller's tables omit them); the capped total of
\* "unknown" never exceeds its cap, and every hit is counted in a capped
\* category.
C8_UnknownContainment ==
    ScoredOK =>
        LET a == args[1]
            given == IF a.caps = << >> THEN DEFAULT_CATEGORY_CAPS
                     ELSE a.caps[1]
            keys == DOMAIN given \cup {S_unknown}
            unknown_cap == IF S_unknown \in DOMAIN given
                           THEN given[S_unknown] ELSE 20
            raw == Breakdown.raw_points_by_category
        IN  /\ DOMAIN raw = keys
            /\ DOMAIN Breakdown.capped_points_by_category = keys
            /\ S_unknown \in DOMAIN ActiveWeights(a)
            /\ \A c \in keys :
                  raw[c] = TotalInt({i \in HitIndices :
                                        \/ ClaimLabel(i) = c
                                        \/ /\ c = S_unknown
                                           /\ ClaimLabel(i) \notin keys},
                                    HitPoints)
            /\ RLe(Breakdown.capped_points_by_category[S_unknown],
                   << unknown_cap, 1 >>)
            /\ Breakdown.raw_points_total = TotalInt(keys, raw)

\* C8 witness: the caller's cap table has no "unknown", a hit of an
\* unmapped category above the default cap is scored, and "unknown" holds
\* the default cap.
C8_Witness ==
    /\ ScoredOK
    /\ args[1].caps # << >>
    /\ S_unknown \notin DOMAIN args[1].caps[1]
    /\ \E i \in HitIndices :
          /\ ClaimLabel(i) \notin DOMAIN args[1].caps[1]
          /\ hits[i].points > 20
    /\ Breakdown.capped_points_by_category[S_unknown] = << 20, 1 >>

\* C5, as stated: with every default, final_score_0_100 is strictly below
\* 100 whatever the hits are.
C5_StrictlyBelow100 ==
    (ScoredOK /\ args[1] = DefaultArgs) => Breakdown.final_score_0_100 < 100

\* the categories that must all contribute for a score of 100
SixCategories ==
    { S_logic, S_security, S_integration, S_test_adequacy, S_performance,
      S_unknown }

\* C5, amended: with every default, final_score_0_100 is at most 100, and
\* it is strictly below 100 unless each of logic, security, integration,
\* test_adequacy, performance and unknown has a positive capped total.
C5_Below100UnlessSixCategories ==
    (ScoredOK /\ args[1] = DefaultArgs) =>
        /\ Breakdown.final_score_0_100 <= 100
        /\ (\E c \in SixCategories :
               RLe(Breakdown.capped_points_by_category[c], << 0, 1 >>))
             => Breakdown.final_score_0_100 < 100

\* C5 witness: five categories are at their caps, a sixth has no hit, and
\* the score is 99.
C5_Witness ==
    /\ ScoredOK
    /\ args[1] = DefaultArgs
    /\ Len(hits) = 5
    /\ \A i \in HitIndices : hits[i].points = 40
    /\ Breakdown.capped_points_by_category[S_unknown] = << 0, 1 >>
    /\ Breakdown.final_score_0_100 = 99

(***************************************************************************)
(* Claims about parse_unified_diff.                                        *)
(***************************************************************************)
\* a line that begins with "@@ " and does not match the header grammar
BadHunkHeader(l) == StartsWith(l, S_atat_sp) /\ HUNK_HEADER_RE(l) = None

\* C9: parse_unified_diff raises if and only if the text holds a line that
\* begins with "@@ " and does not match the hunk-header grammar; when it
\* raises it returns nothing, whatever was parsed before, and otherwise it
\* returns a list.
C9_RaisesIffBadHeader ==
    /\ parse_status = "raised"
         <=> \E i \in 1..Len(text) : BadHunkHeader(text[i])
    /\ parse_status = "raised" => parsed = None
    /\ parse_status = "returned" => parsed = Some(files)

\* every hunk built so far
HunksOf(fs) ==
    UNION { {fs[i].hunks[j] : j \in 1..Len(fs[i].hunks)} : i \in 1..Len(fs) }

AllHunks ==
    HunksOf(files) \cup HunksOf(current_file)
    \cup (IF current_hunk = << >> THEN {} ELSE {current_hunk[1]})

OldSide(h) == SelectSeq(h.lines, LAMBDA l : l.kind \in {"context", "delete"})

NewSide(h) == SelectSeq(h.lines, LAMBDA l : l.kind \in {"context", "add"})

\* C10: line-number bookkeeping.  In every hunk the old line numbers of the
\* context and delete lines are old_start, old_start + 1, ... in order, the
\* new line numbers of the context and add lines are new_start,
\* new_start + 1, ...; add lines have no old number, delete lines no new
\* number, context lines both, meta lines neither; and the cursors of the
\* open hunk stand at the start plus the lines counted so far.
C10_LineNumbers ==
    /\ \A h \in AllHunks :
          /\ \A j \in 1..Len(OldSide(h)) :
                OldSide(h)[j].old_lineno = << h.old_start + j - 1 >>
          /\ \A j \in 1..Len(NewSide(h)) :
                NewSide(h)[j].new_lineno = << h.new_start + j - 1 >>
          /\ \A j \in 1..Len(h.lines) :
                LET l == h.lines[j]
                IN  /\ l.kind \in {"context", "add", "delete", "meta"}
                    /\ l.kind = "add" => l.old_lineno = << >>
                    /\ l.kind = "delete" => l.new_lineno = << >>
                    /\ l.kind = "context"
                         => l.old_lineno # << >> /\ l.new_lineno # << >>
                    /\ l.kind = "meta"
                         => l.old_lineno = << >> /\ l.new_lineno = << >>
    /\ current_hunk # << >> =>
          /\ old_lineno
               = << current_hunk[1].old_start + Len(OldSide(current_hunk[1])) >>
          /\ new_lineno
               = << current_hunk[1].new_start + Len(NewSide(current_hunk[1])) >>

\* C10 witness: a returned hunk with a context, a delete and an add line.
C10_Witness ==
    /\ parse_status = "returned"
    /\ \E h \in HunksOf(parsed[1]) :
          /\ Len(h.lines) = 3
          /\ {h.lines[j].kind : j \in 1..3} = {"context", "delete", "add"}

\* the line the claim C11 expects for an input line read inside an open hunk
ExpectedHunkLine(raw_line) ==
    IF Head(raw_line) = 45
    THEN Line("delete", Tail(raw_line), old_lineno, None)
    ELSE IF Head(raw_line) = 43
    THEN Line("add", Tail(raw_line), None, new_lineno)
    ELSE IF Head(raw_line) = 32
    THEN Line("context", Tail(raw_line), old_lineno, new_lineno)
    ELSE Line("meta", IF StartsWith(raw_line, S_backslash_sp)
                      THEN Drop(raw_line, 2) ELSE raw_line, None, None)

\* C11: in-hunk line classification.  Whenever a line is read while a hunk
\* is open, that hunk stays open and the line is appended to it: as a delete
\* line when it begins with '-' (old cursor advanced), as an add line when
\* it begins with '+' (new cursor advanced), as a context line when it
\* begins with a space (both advanced), else as a meta line; no line is
\* dropped or reinterpreted.
C11_InHunkClassification ==
    [][(current_hunk # None /\ text' # text)
         => LET raw_line == text'[Len(text')]
                kind == ExpectedHunkLine(raw_line).kind
            IN  /\ parse_status' = "reading"
                /\ current_hunk' # None
                /\ current_hunk'[1].lines
                     = Append(current_hunk[1].lines, ExpectedHunkLine(raw_line))
                /\ old_lineno' = IF kind \in {"delete", "context"}
                                 THEN << old_lineno[1] + 1 >> ELSE old_lineno
                /\ new_lineno' = IF kind \in {"add", "context"}
                                 THEN << new_lineno[1] + 1 >> ELSE new_lineno
                /\ current_file' = current_file]_vars


(***************************************************************************)
(* Claims about schedule_plugin_rules.                                     *)
(***************************************************************************)
\* the call has passed its validation: the loop runs or has run
Scheduling == sched_pc = "loop" \/ (sched_pc = "returned" /\ CallInfos # << >>)

\* the cost committed by the records before position i
RECURSIVE CommittedBefore(_)
CommittedBefore(i) ==
    IF i <= 1 THEN Float(0)
    ELSE IF runs[i - 1].status = "scheduled"
         THEN RAdd(CommittedBefore(i - 1), runs[i - 1].estimated_cost_seconds)
         ELSE CommittedBefore(i - 1)

PackGatePasses(i) == sched_args[1].active_packs \cap Elems(runs[i].packs) # {}

ModeGatePasses(i) ==
    Lower(sched_args[1].mode)
        \in Elems(InfoById(CallInfos, runs[i].plugin_id).modes)

CostCapGatePasses(i) ==
    RLe(runs[i].estimated_cost_seconds,
        MODE_MAX_PLUGIN_COST_SECONDS[Lower(sched_args[1].mode)])

BudgetGatePasses(i) ==
    RLe(RAdd(CommittedBefore(i), runs[i].estimated_cost_seconds),
        Float(sched_args[1].budget_seconds))

FirstFailingGate(i) ==
    IF ~PackGatePasses(i) THEN S_pack_inactive
    ELSE IF ~ModeGatePasses(i) THEN S_mode_incompatible
    ELSE IF ~CostCapGatePasses(i) THEN S_mode_cost_cap
    ELSE IF ~BudgetGatePasses(i) THEN S_budget_exceeded
    ELSE S_selected

\* C12: every run record carries the first failing gate, in the order
\* pack-inactive, mode-incompatible, mode-cost-cap, budget-exceeded, as its
\* skip reason; it is 'scheduled' exactly when all four gates pass, and the
\* committed cost is the sum of the costs of the scheduled records.
C12_GatesInOrder ==
    Scheduling =>
        /\ \A i \in 1..Len(runs) :
            /\ runs[i].reason = FirstFailingGate(i)
            /\ runs[i].status = "scheduled"
                <=> (/\ PackGatePasses(i) /\ ModeGatePasses(i)
                     /\ CostCapGatePasses(i) /\ BudgetGatePasses(i))
            /\ runs[i].status \in {"scheduled", "skipped"}
        /\ spent = CommittedBefore(Len(runs) + 1)

\* a returned call whose records show every gate failing once and one
\* candidate admitted
C12_Witness ==
    /\ sched_pc = "returned"
    /\ {runs[i].reason : i \in 1..Len(runs)}
         = {S_pack_inactive, S_mode_incompatible, S_mode_cost_cap,
            S_budget_exceeded, S_selected}


\* the plugin ids of the records with status 'scheduled', in order
RECURSIVE ScheduledIds(_)
ScheduledIds(rs) ==
    IF rs = << >> THEN << >>
    ELSE IF Head(rs).status = "scheduled"
         THEN << Head(rs).plugin_id >> \o ScheduledIds(Tail(rs))
         ELSE ScheduledIds(Tail(rs))

IsPrefix(s, t) == Len(s) <= Len(t) /\ SubSeq(t, 1, Len(s)) = s

\* the records are those of the candidates passed so far, one each, in order
OneRecordPerCandidate ==
    /\ Len(runs) = next_candidate
    /\ \A i \in 1..Len(runs) : runs[i].plugin_id = candidate_ids[i]
    /\ sched_pc = "returned" => Len(runs) = Len(candidate_ids)
    /\ wrappers = ScheduledIds(runs)

\* C13: the scheduler makes one pass: each step leaves one record per
\* candidate passed, in candidate order, the evaluators are the scheduled
\* candidates in that order, and no step changes an earlier record or
\* drops an evaluator, so a skipped candidate is never admitted later.
C13_SinglePass ==
    [][(sched_pc' = "loop" \/ (sched_pc' = "returned" /\ sched_pc = "loop"))
        => /\ OneRecordPerCandidate'
           /\ sched_pc = "loop" =>
                /\ IsPrefix(runs, runs')
                /\ IsPrefix(wrappers, wrappers')
                /\ candidate_ids' = candidate_ids]_vars

\* with the built-in plugins: a candidate was skipped for the budget and a
\* later, cheaper one was admitted
C13_Witness ==
    /\ sched_pc = "returned"
    /\ extra_plugins = << >>
    /\ \E i, j \in 1..Len(runs) :
        /\ i < j
        /\ runs[i].status = "skipped" /\ runs[i].reason = S_budget_exceeded
        /\ runs[j].status = "scheduled"
        /\ RLt(runs[j].estimated_cost_seconds, runs[i].estimated_cost_seconds)
        /\ runs[i].plugin_id \notin Elems(wrappers)


\* the ids of the enable-list and the disable-list of the call
RequestedPluginIds ==
    Elems(OrElse(sched_args[1].enabled_plugin_ids, << >>))
        \cup Elems(OrElse(sched_args[1].disabled_plugin_ids, << >>))

\* the call has a valid mode and a positive budget and names a plugin id
\* that the registry does not know
NamesUnknownPlugin ==
    /\ sched_args # None
    /\ Lower(sched_args[1].mode) \in DOMAIN MODE_MAX_PLUGIN_COST_SECONDS
    /\ sched_args[1].budget_seconds > 0
    /\ RequestedPluginIds \ Elems(PluginIds(CallInfos)) # {}

\* C14: a call with a valid mode and a positive budget that names an
\* unknown plugin id in its enable-list or disable-list fails with the
\* unknown-plugin-id error and evaluates no candidate, whatever
\* include_builtin and active_packs are.
C14_UnknownIdsRejected ==
    NamesUnknownPlugin =>
        /\ sched_pc = "raised"
        /\ sched_error = "unknown-plugin-ids"
        /\ runs = << >>
        /\ wrappers = << >>


\* the position of the first occurrence of x in s (0 when absent)
FirstIndex(s, x) ==
    IF x \in Elems(s) THEN CHOOSE i \in 1..Len(s) :
                               s[i] = x /\ \A j \in 1..(i - 1) : s[j] # x
    ELSE 0

NoDuplicates(s) == \A i, j \in 1..Len(s) : i # j => s[i] # s[j]

DisabledPluginIds == Elems(OrElse(sched_args[1].disabled_plugin_ids, << >>))

\* the candidates are the enable-list's ids minus the disabled ones, in the
\* caller's order, a repeated id standing where it first occurs
FromEnableList(enabled) ==
    /\ Elems(candidate_ids) = Elems(enabled) \ DisabledPluginIds
    /\ NoDuplicates(candidate_ids)
    /\ \A i, j \in 1..Len(candidate_ids) :
        i < j => FirstIndex(enabled, candidate_ids[i])
                    < FirstIndex(enabled, candidate_ids[j])

\* the candidates are the known plugins minus the disabled ones, by
\* priority descending, equal priorities in registration order
FromRegistry(infos) ==
    /\ Elems(candidate_ids) = Elems(PluginIds(infos)) \ DisabledPluginIds
    /\ NoDuplicates(candidate_ids)
    /\ \A i, j \in 1..Len(candidate_ids) :
        i < j =>
            LET p == InfoById(infos, candidate_ids[i]).priority
                q == InfoById(infos, candidate_ids[j]).priority
            IN  \/ p > q
                \/ /\ p = q
                   /\ FirstIndex(PluginIds(infos), candidate_ids[i])
                        < FirstIndex(PluginIds(infos), candidate_ids[j])

\* C15: with a non-empty enable-list the candidates are its ids minus the
\* disabled ones, in the caller's order with later duplicates dropped;
\* otherwise they are all known plugins minus the disabled ones, by
\* priority descending and registration order among equal priorities.
C15_CandidateOrder ==
    (sched_pc \in {"loop", "returned"} /\ ~NamesUnknownPlugin) =>
        IF OrElse(sched_args[1].enabled_plugin_ids, << >>) # << >>
        THEN FromEnableList(sched_args[1].enabled_plugin_ids[1])
        ELSE FromRegistry(CallInfos)

\* an enable-list with a repeated id and a disabled id has been resolved
C15_Witness ==
    /\ Scheduling
    /\ sched_args[1].enabled_plugin_ids # None
    /\ ~NoDuplicates(sched_args[1].enabled_plugin_ids[1])
    /\ Elems(sched_args[1].enabled_plugin_ids[1]) \cap DisabledPluginIds # {}
    /\ Len(candidate_ids) >= 2


(***************************************************************************)
(* Claims about the plugin wrapper and score_files.                        *)
(***************************************************************************)
\* the record of the k-th wrapper
RunOfWrapper(k) == runs[RunIndex(wrappers[k])]

EndsWith(s, suffix) ==
    Len(s) >= Len(suffix)
    /\ SubSeq(s, Len(s) - Len(suffix) + 1, Len(s)) = suffix

\* the findings of a rule among all_findings
FindingsOf(rule_id) == SelectSeq(all_findings, LAMBDA f : f.rule_id = rule_id)

\* the k-th wrapper met an exception and isolated it
FailureRecorded(k) ==
    /\ RunOfWrapper(k).status = "failed"
    /\ EndsWith(RunOfWrapper(k).reason, results[k].raised[1].text)
    /\ RunOfWrapper(k).findings = 0
    /\ RunOfWrapper(k).elapsed_ms # None
    /\ FindingsOf(RunOfWrapper(k).rule_id) = << >>

\* the k-th wrapper's plugin returned its findings
SuccessRecorded(k) ==
    /\ RunOfWrapper(k).status = "ran"
    /\ RunOfWrapper(k).findings = Len(results[k].findings)
    /\ RunOfWrapper(k).elapsed_ms # None
    /\ FindingsOf(RunOfWrapper(k).rule_id) = results[k].findings

\* C16: whatever exception a scheduled plugin's evaluate raises, the
\* wrapper does not propagate it: the record ends 'failed' with the error
\* description, findings 0 and elapsed_ms set, no finding is contributed,
\* and score_files goes on through the remaining wrappers and returns a
\* score of the findings collected; a plugin that returns ends 'ran' with
\* its number of findings and elapsed_ms set.
C16_FailureIsolation ==
    /\ eval_pc # "propagated"
    /\ \A k \in 1..Len(results) :
        IF results[k].raised # None THEN FailureRecorded(k)
        ELSE SuccessRecorded(k)
    /\ eval_pc = "plugins" => Len(results) = next_rule
    /\ eval_pc = "scored" =>
        /\ Len(results) = Len(wrappers)
        /\ outcome = Some(score_rule_hits(
                        RuleHitsOf(all_findings, DEFAULT_RULE_CATEGORIES),
                        DefaultArgs))
        /\ outcome[1].raised = ""


(***************************************************************************)
(* Claims about build_rules and resolve_active_packs.                      *)
(***************************************************************************)
BuildRulesCalled == rules_pc \in {"loop", "returned", "raised"}

BuildRulesReturned == rules_pc = "returned"

DisabledRuleIds == Elems(OrElse(rules_args[1].disabled_rule_ids, << >>))

\* the weight of a category: the override when there is one, else the
\* weight of the objective preset
ResolvedWeight(category) ==
    IF category \in DOMAIN OrElse(rules_args[1].category_weights, EmptyTable)
    THEN rules_args[1].category_weights[1][category]
    ELSE OBJECTIVE_PRESETS[Lower(rules_args[1].objective_name)]
            .category_weights[category]

ZeroWeight(category) == WithinEpsilon(ResolvedWeight(category))

CategoryOf(rule_id) ==
    (CHOOSE spec \in Elems(ordered_rule_specs) : spec.rule_id = rule_id).category

PacksOf(rule_id) ==
    Elems((CHOOSE spec \in Elems(ordered_rule_specs) :
               spec.rule_id = rule_id).packs)

BuiltIds == RuleIds(built)

\* C17: with an enable-list, build_rules returns exactly the ids of the
\* enable-list that are not disabled and whose category weight is not zero,
\* in the caller's order without duplicates, whatever packs are active;
\* with or without an enable-list no disabled id is returned.
C17_EnableListWins ==
    BuildRulesReturned =>
        /\ Elems(BuiltIds) \cap DisabledRuleIds = {}
        /\ rules_args[1].enabled_rule_ids # None =>
            /\ Elems(BuiltIds)
                 = { id \in Elems(rules_args[1].enabled_rule_ids[1]) :
                        id \notin DisabledRuleIds /\ ~ZeroWeight(CategoryOf(id)) }
            /\ NoDuplicates(BuiltIds)
            /\ \A m, n \in 1..Len(BuiltIds) :
                m < n => FirstIndex(rules_args[1].enabled_rule_ids[1], BuiltIds[m])
                           < FirstIndex(rules_args[1].enabled_rule_ids[1],
                                        BuiltIds[n])

\* an enable-list with a repeated id, a disabled id and a rule of an
\* inactive pack: the rule of the inactive pack is returned
C17_Witness ==
    /\ BuildRulesReturned
    /\ rules_args[1].enabled_rule_ids # None
    /\ ~NoDuplicates(rules_args[1].enabled_rule_ids[1])
    /\ Elems(rules_args[1].enabled_rule_ids[1]) \cap DisabledRuleIds # {}
    /\ \E id \in Elems(BuiltIds) : PacksOf(id) \cap rules_active = {}
    /\ Len(built) >= 2


\* C18: build_rules returns no rule of a category whose resolved weight is
\* zero within 1e-9, be the rule in the enable-list or its pack active; with
\* the security weight at 0 neither critical_paths nor dangerous_patterns
\* is among the rules that score_files evaluates.
C18_ZeroWeightDrops ==
    BuildRulesReturned =>
        /\ \A k \in 1..Len(built) : ~ZeroWeight(CategoryOf(built[k].rule_id))
        /\ ZeroWeight(S_security) =>
            Elems(BuiltIds) \cap {S_critical_paths, S_dangerous_patterns} = {}

\* the security weight is 0, the security pack is active and
\* dangerous_patterns is in the enable-list: other rules are returned
C18_Witness ==
    /\ BuildRulesReturned
    /\ ResolvedWeight(S_security) = Float(0)
    /\ S_security \in rules_active
    /\ S_dangerous_patterns \in Elems(OrElse(rules_args[1].enabled_rule_ids, << >>))
    /\ built # << >>


\* the call of build_rules is over
BuildRulesOver == rules_pc \in {"returned", "raised"}

\* some category weight override of the call is negative
NegativeOverride ==
    \E c \in DOMAIN OrElse(rules_args[1].category_weights, EmptyTable) :
        RLt(rules_args[1].category_weights[1][c], Float(0))

\* the call names an unknown rule id, objective, pack or weight category
OtherwiseInvalid ==
    rules_error \in {"unknown-rule-ids", "unknown-objective", "unknown-packs",
                     "unknown-weight-categories"}

\* C19: a call of build_rules whose configuration is otherwise valid and
\* has a negative category weight override fails with the invalid-weight
\* error and returns no rules, whatever the objective, the active packs and
\* the rule lists are.
C19_NegativeWeightRejected ==
    (BuildRulesOver /\ NegativeOverride /\ ~OtherwiseInvalid) =>
        /\ rules_pc = "raised"
        /\ rules_error = "invalid-weight"


\* the known pack universe
PackUniverse ==
    { S_logic, S_integration, S_test_adequacy, S_security, S_quality,
      S_profile }

EnabledPacks == Elems(OrElse(rules_args[1].enabled_packs, << >>))

DisabledPacks == Elems(OrElse(rules_args[1].disabled_packs, << >>))

\* the objective of the call names a preset
KnownObjective == Lower(rules_args[1].objective_name) \in DOMAIN OBJECTIVE_PRESETS

\* (default packs of the preset, plus the enable list) minus the disable list
ExpectedActivePacks ==
    (Elems(OBJECTIVE_PRESETS[Lower(rules_args[1].objective_name)].default_packs)
     \cup EnabledPacks) \ DisabledPacks

\* resolve_active_packs has been called, by itself or by build_rules
PacksResolved ==
    \/ rules_pc = "resolved"
    \/ BuildRulesCalled /\ rules_error # "unknown-rule-ids"

RegistryIndex(rule_id) == FirstIndex(RuleIds(ordered_rule_specs), rule_id)

\* C20: for an objective that names a preset, resolve_active_packs fails
\* with the unknown-pack error when a list names a pack outside the
\* universe and otherwise returns (default packs + enable list) - disable
\* list; without a rule enable-list build_rules returns only rules with an
\* active pack, in registry order.
C20_PackResolution ==
    /\ (PacksResolved /\ KnownObjective) =>
        IF (EnabledPacks \cup DisabledPacks) \ PackUniverse # {}
        THEN rules_error = "unknown-packs" /\ rules_active = {}
                /\ rules_pc \in {"resolved", "raised"}
        ELSE rules_error # "unknown-packs"
                /\ (rules_pc \in {"resolved", "loop", "returned"}
                        => rules_active = ExpectedActivePacks)
    /\ (BuildRulesReturned /\ rules_args[1].enabled_rule_ids = None) =>
        /\ \A k \in 1..Len(built) :
              PacksOf(built[k].rule_id) \cap ExpectedActivePacks # {}
        /\ \A m, n \in 1..Len(built) :
              m < n => RegistryIndex(built[m].rule_id)
                         < RegistryIndex(built[n].rule_id)

\* the security pack is in both pack lists: it is inactive, and build_rules
\* returns rules none of which is a security rule
C20_Witness ==
    /\ BuildRulesReturned
    /\ rules_args[1].enabled_rule_ids = None
    /\ S_security \in EnabledPacks \cap DisabledPacks
    /\ S_security \notin rules_active
    /\ built # << >>
    /\ \A k \in 1..Len(built) : CategoryOf(built[k].rule_id) # S_security


\* C27: during the admission pass and in the returned schedule the costs
\* of the records with status 'scheduled' add up to at most budget_seconds
\* and each is at most the per-plugin ceiling of the mode; a call with an
\* unknown mode or with budget_seconds <= 0 is rejected with no candidate
\* considered.
C27_BudgetInvariant ==
    /\ sched_pc \in {"loop", "returned"} =>
        /\ sched_args[1].budget_seconds > 0
        /\ Lower(sched_args[1].mode) \in DOMAIN MODE_MAX_PLUGIN_COST_SECONDS
        /\ RLe(CommittedBefore(Len(runs) + 1),
               Float(sched_args[1].budget_seconds))
        /\ \A i \in 1..Len(runs) :
            runs[i].status = "scheduled" =>
                RLe(runs[i].estimated_cost_seconds,
                    MODE_MAX_PLUGIN_COST_SECONDS[Lower(sched_args[1].mode)])
    /\ (sched_args # None
        /\ (sched_args[1].budget_seconds <= 0
            \/ Lower(sched_args[1].mode)
                 \notin DOMAIN MODE_MAX_PLUGIN_COST_SECONDS)) =>
        /\ sched_pc = "raised"
        /\ sched_error \in {"unknown-mode", "invalid-budget"}
        /\ runs = << >> /\ wrappers = << >> /\ next_candidate = 0

\* a returned schedule that uses the budget up and has skipped a candidate
\* for it
C27_Witness ==
    /\ sched_pc = "returned"
    /\ Len(wrappers) >= 2
    /\ CommittedBefore(Len(runs) + 1) = Float(sched_args[1].budget_seconds)
    /\ \E i \in 1..Len(runs) : runs[i].reason = S_budget_exceeded

\* the record of the plugin with this rule id
RunOfRule(rule_id) == runs[CHOOSE i \in 1..Len(runs) : runs[i].rule_id = rule_id]

\* the rule ids of the scheduled plugins
ScheduledRuleIds == { RunOfWrapper(k).rule_id : k \in 1..Len(wrappers) }

\* C28: every finding of a scheduled plugin becomes a RuleHit whose category
\* is the category the plugin declares, not 'unknown'.
C28_PluginCategoryKept ==
    eval_pc = "scored" =>
        \A i \in 1..Len(hits) :
            hits[i].id \in ScheduledRuleIds =>
                hits[i].category = RunOfRule(hits[i].id).category

\* the list the call was made on without its last hit
HitsBefore == SubSeq(hits, 1, Len(hits) - 1)

\* the ScoreBreakdown of the same call on the list without its last hit
ScoreBefore == score_rule_hits(HitsBefore, args[1])

\* the last hit of the list is an extra hit with strictly positive points,
\* and both calls return
ExtraPositiveHit ==
    /\ ScoredOK
    /\ Len(hits) >= 1
    /\ hits[Len(hits)].points > 0
    /\ ScoreBefore.raised = ""

\* C29: monotonicity.  Adding one hit with strictly positive points to a
\* list, with the same parameter table, never lowers final_score_0_100.
C29_PositiveHitMonotone ==
    ExtraPositiveHit =>
        Breakdown.final_score_0_100 >= ScoreBefore.value[1].final_score_0_100

\* the call's table has no negative category weight
NonNegativeWeights ==
    \A c \in DOMAIN ActiveWeights(args[1]) :
        RLe(Float(0), ActiveWeights(args[1])[c])

\* the rule of hit i has a pre-cap that _rule_scale_factor applies
HasPreCap(i) ==
    /\ hits[i].id \in DOMAIN ActiveRuleCaps(args[1])
    /\ RLt(Float(0), ActiveRuleCaps(args[1])[hits[i].id])

\* the extra hit belongs to a pre-capped rule that already has a hit under
\* another normalized category
SpreadsPreCappedRule ==
    /\ HasPreCap(Len(hits))
    /\ \E i \in 1..(Len(hits) - 1) :
          /\ hits[i].id = hits[Len(hits)].id
          /\ CallCategories[i] # CallCategories[Len(hits)]

\* C29 as it holds: the extra positive hit never lowers final_score_0_100
\* when no category weight is negative and the hit does not spread a
\* pre-capped rule over a second category.
C29_MonotoneWithinCategory ==
    (ExtraPositiveHit /\ NonNegativeWeights /\ ~SpreadsPreCappedRule) =>
        Breakdown.final_score_0_100 >= ScoreBefore.value[1].final_score_0_100

\* an extra hit of the pre-capped rule, in the category of the rule's
\* earlier hit, takes the rule over its cap and the score still rises
C29_Witness ==
    /\ ExtraPositiveHit /\ NonNegativeWeights /\ ~SpreadsPreCappedRule
    /\ HasPreCap(Len(hits))
    /\ \E i \in 1..(Len(hits) - 1) : hits[i].id = hits[Len(hits)].id
    /\ RLt(CallAdjusted[Len(hits)], Float(hits[Len(hits)].points))
    /\ Breakdown.final_score_0_100 > ScoreBefore.value[1].final_score_0_100

(***************************************************************************)
(* Further claims about parse_unified_diff.                                *)
(***************************************************************************)
\* the line read by this step stays inside the open hunk: it is neither a
\* 'diff --git ' header nor a hunk header
StaysInHunk ==
    /\ current_hunk # None
    /\ text' # text
    /\ ~StartsWith(text'[Len(text')], S_diff_git_sp)
    /\ ~StartsWith(text'[Len(text')], S_atat_sp)

\* C26: while a hunk of the current file record is open, no line read
\* inside that hunk changes the record's old_path, new_path or canonical
\* path; '--- ' and '+++ ' lines set the paths only when no hunk is open.
C26_PathsFrozenInHunk ==
    [][StaysInHunk =>
         /\ current_file' # None
         /\ current_file'[1].old_path = current_file[1].old_path
         /\ current_file'[1].new_path = current_file[1].new_path
         /\ CanonicalPath(current_file'[1]) = CanonicalPath(current_file[1])]_vars

(***************************************************************************)
(* Claims about score_files.                                               *)
(***************************************************************************)
\* score_files has returned a ScoreResult
ScoreFilesReturned ==
    eval_pc = "scored" /\ score_args # None /\ outcome[1].raised = ""

\* ScoreResult.overall_score
overall_score == outcome[1].value[1].final_score_0_100

\* score_files was given one rule, and the registry does not know its id
SingleUnregisteredRule ==
    /\ Len(score_args[1].rules) = 1
    /\ score_args[1].rules[1].rule_id \notin Elems(RuleIds(ordered_rule_specs))

\* the rule emitted one overall-scope finding of 500 points or more
OneHugeOverallFinding ==
    /\ Len(all_findings) = 1
    /\ all_findings[1].scope = S_overall
    /\ all_findings[1].points >= 500

\* C24: score_files with a single rule outside the registry that emits one
\* overall-scope finding of 500 points or more returns overall_score 100.
C24_SaturatesAt100 ==
    (ScoreFilesReturned /\ SingleUnregisteredRule /\ OneHugeOverallFinding)
        => overall_score = 100

\* the rules score_files ran are those of default_rules()
ScoredWithDefaultRules ==
    /\ Len(score_args[1].rules) = Len(default_rules)
    /\ \A i \in 1..Len(default_rules) :
          /\ score_args[1].rules[i].rule_id = default_rules[i].rule_id
          /\ score_args[1].rules[i].weight = default_rules[i].weight

\* the diff changes docs/guide.md and nothing else
OnlyDocsGuideChanged ==
    /\ Len(score_args[1].files) >= 1
    /\ \A i \in 1..Len(score_args[1].files) :
          CanonicalPath(score_args[1].files[i]) = S_docs_guide_md

DocsOnlyRun ==
    ScoreFilesReturned /\ ScoredWithDefaultRules /\ OnlyDocsGuideChanged

\* the docs_only rule emitted a finding with negative points
DocsOnlyFired ==
    \E i \in 1..Len(all_findings) :
        all_findings[i].rule_id = S_docs_only /\ all_findings[i].points < 0

\* overall_score of a run that produces no findings
NoFindingsScore ==
    score_rule_hits(<< >>, DefaultArgs).value[1].final_score_0_100

\* overall_score of the same run without the findings of docs_only
ScoreWithoutDocsOnly ==
    score_rule_hits(SelectSeq(hits, LAMBDA h : h.id # S_docs_only),
                    DefaultArgs).value[1].final_score_0_100

\* C23: docs/guide.md alone under the default rules: docs_only emits a
\* finding with negative points and overall_score is strictly lower than
\* that of a run with no findings.
C23_DocsOnlyBelowBaseline ==
    DocsOnlyRun => (DocsOnlyFired /\ overall_score < NoFindingsScore)

\* C23 as it holds: docs_only emits a finding with negative points and
\* overall_score is not higher than the same run scores without that
\* finding.
C23_DocsOnlyNeverRaises ==
    DocsOnlyRun => (DocsOnlyFired /\ overall_score <= ScoreWithoutDocsOnly)

\* a large change of docs/guide.md: the finding lowers a score that stays
\* above that of a run with no findings
C23_Witness ==
    /\ DocsOnlyRun
    /\ DocsOnlyFired
    /\ overall_score < ScoreWithoutDocsOnly
    /\ overall_score > NoFindingsScore

\* score_files was given one _WeightedRule, of a weight above 0
OneWeightedRule ==
    /\ ScoreFilesReturned
    /\ Len(score_args[1].rules) = 1
    /\ score_args[1].rules[1].weight # None
    /\ RLt(Float(0), score_args[1].rules[1].weight[1])

WrapperWeight == score_args[1].rules[1].weight[1]

\* what the wrapped rule's own evaluate returns
WrappedFindings ==
    RuleEvaluate([score_args[1].rules[1] EXCEPT !.weight = None],
                 score_args[1].files)

\* | q - p * w |, computed as | (q - p) + p * (1 - w) |
Deviation(p, q, w) ==
    RAbs(RAdd(Float(q - p), RMul(Float(p), RAdd(Float(1), RNeg(w)))))

\* a <= 1/2 and a < 1/2 for a rational a >= 0, without the product 2 * a[1]
AtMostHalf(a) == a[1] <= a[2] \div 2

BelowHalf(a) == a[1] <= (a[2] - 1) \div 2

\* q is what the claim allows for p points under weight w: an integer
\* nearest to p * w, or +1 / -1 where p is not 0 and that integer is 0
ScaledAsClaimed(p, q, w) ==
    /\ IF p # 0 /\ AtMostHalf(Deviation(p, 0, w))
       THEN q = (IF p > 0 THEN 1 ELSE -1)
       ELSE AtMostHalf(Deviation(p, q, w))
    /\ p > 0 => q > 0
    /\ p < 0 => q < 0
    /\ p = 0 => q = 0

\* C21: a _WeightedRule of weight w > 0 returns the findings of its rule in
\* number and order, each with the points scaled to the integer nearest to
\* p * w, or to +1 / -1 where p is not 0 and that integer is 0, and with
\* rule id, message, evidence, scope and suggestion unchanged.
C21_WeightScaling ==
    OneWeightedRule =>
        /\ Len(all_findings) = Len(WrappedFindings)
        /\ \A i \in 1..Len(WrappedFindings) :
              /\ ScaledAsClaimed(WrappedFindings[i].points,
                                 all_findings[i].points, WrapperWeight)
              /\ all_findings[i] =
                     [WrappedFindings[i] EXCEPT
                         !.points = all_findings[i].points]

\* under one weight a finding of non-zero points is kept alive at +1 or -1
\* and another is scaled to a different number of points
C21_Witness ==
    /\ OneWeightedRule
    /\ Len(all_findings) = 2
    /\ \E i, j \in 1..2 :
          /\ WrappedFindings[i].points # 0
          /\ BelowHalf(Deviation(WrappedFindings[i].points, 0, WrapperWeight))
          /\ all_findings[i].points \in {1, -1}
          /\ all_findings[j].points # WrappedFindings[j].points
          /\ all_findings[j].points \notin {0, 1, -1}

\* the scope of the n-th finding, parsed
ScopeOf(n) == parse_scope(all_findings[n].scope)

\* the findings whose scope names the path, at file or at hunk level
NamingPath(path) ==
    { n \in 1..Len(all_findings) :
        ScopeOf(n).kind \in {"file", "hunk"} /\ ScopeOf(n).path = path }

\* the hunk-scoped findings that name the path and the hunk of 0-based
\* index k
NamingHunk(path, k) ==
    { n \in NamingPath(path) :
        ScopeOf(n).kind = "hunk" /\ ScopeOf(n).hunk_index = Some(k) }

\* the hunk-scoped findings that name the path and no hunk of the file
OutOfRange(path, hunk_count) ==
    { n \in NamingPath(path) :
        /\ ScopeOf(n).kind = "hunk"
        /\ ScopeOf(n).hunk_index[1] \notin 0..(hunk_count - 1) }

FindingPoints == [n \in 1..Len(all_findings) |-> all_findings[n].points]

\* the sum of the points of a set of findings, clamped to [0, 100]
ClampedSum(S) ==
    IF TotalInt(S, FindingPoints) < 0 THEN 0
    ELSE IF TotalInt(S, FindingPoints) > 100 THEN 100
    ELSE TotalInt(S, FindingPoints)

\* one FileScore per parsed file, in input order, with one HunkScore per hunk
ScoresMirrorFiles ==
    /\ Len(scored_files) = Len(score_args[1].files)
    /\ \A i \in 1..Len(scored_files) :
          /\ scored_files[i].path = CanonicalPath(score_args[1].files[i])
          /\ Len(scored_files[i].hunks) = Len(score_args[1].files[i].hunks)
          /\ \A k \in 1..Len(scored_files[i].hunks) :
                scored_files[i].hunks[k].header =
                    score_args[1].files[i].hunks[k].header

\* every finding becomes a RuleHit and counts in the breakdown
AllFindingsCounted ==
    /\ Len(hits) = Len(all_findings)
    /\ Breakdown.raw_points_total =
           TotalInt(1..Len(all_findings), FindingPoints)

\* every finding listed under a hunk is also listed under its file
HunkFindingsUnderFile ==
    \A i \in 1..Len(scored_files) :
        \A k \in 1..Len(scored_files[i].hunks) :
            Elems(scored_files[i].hunks[k].findings)
                \subseteq Elems(scored_files[i].findings)

\* the HunkScores of the FileScore at position i hold the clamped sums of
\* the findings that name them
HunkScoresOf(i) ==
    \A k \in 1..Len(scored_files[i].hunks) :
        scored_files[i].hunks[k].score =
            ClampedSum(NamingHunk(scored_files[i].path, k - 1))

\* C30: one FileScore per parsed file in input order, one HunkScore per
\* hunk; FileScore.score is the clamped sum of the findings scoped to the
\* file or to one of its hunks, HunkScore.score the clamped sum of the
\* hunk-scoped findings of that index; overall findings and findings that
\* name an unknown path or an out-of-range hunk index change no file or hunk
\* score but count in overall_score; a finding under a hunk is under its
\* file.
C30_Projection ==
    ScoreFilesReturned =>
        /\ ScoresMirrorFiles
        /\ \A i \in 1..Len(scored_files) :
              /\ scored_files[i].score =
                     ClampedSum(NamingPath(scored_files[i].path)
                                \ OutOfRange(scored_files[i].path,
                                             Len(scored_files[i].hunks)))
              /\ HunkScoresOf(i)
        /\ AllFindingsCounted
        /\ HunkFindingsUnderFile

\* the FileScore at position i is the one file_map holds for its path
CollectsFindings(i) ==
    \A j \in (i + 1)..Len(scored_files) :
        scored_files[j].path # scored_files[i].path

\* a FileScore that file_map does not hold stays as it was initialized
LeftUntouched(i) ==
    /\ scored_files[i].score = 0
    /\ scored_files[i].findings = << >>
    /\ \A k \in 1..Len(scored_files[i].hunks) :
          /\ scored_files[i].hunks[k].score = 0
          /\ scored_files[i].hunks[k].findings = << >>

\* C30 as it holds: a finding with an out-of-range hunk index counts in the
\* score of its file, and of several files of one path only the last
\* collects findings.
C30_ProjectionLastOfPath ==
    ScoreFilesReturned =>
        /\ ScoresMirrorFiles
        /\ \A i \in 1..Len(scored_files) :
              IF CollectsFindings(i)
              THEN /\ scored_files[i].score =
                          ClampedSum(NamingPath(scored_files[i].path))
                   /\ HunkScoresOf(i)
              ELSE LeftUntouched(i)
        /\ AllFindingsCounted
        /\ HunkFindingsUnderFile

\* a file with two hunks: a finding names its second hunk, another a hunk
\* it does not have, and the sum of the file is clamped
C30_Witness ==
    /\ ScoreFilesReturned
    /\ \E i \in 1..Len(scored_files) :
          /\ Len(scored_files[i].hunks) = 2
          /\ NamingHunk(scored_files[i].path, 1) # {}
          /\ OutOfRange(scored_files[i].path, 2) # {}
          /\ scored_files[i].hunks[2].score > 0
          /\ scored_files[i].score = 100
          /\ TotalInt(NamingPath(scored_files[i].path), FindingPoints) > 100

(***************************************************************************)
(* Claims about _prepare_score_context.                                    *)
(***************************************************************************)
\* every plugin id the registry of plugins/__init__.py knows
KnownPluginIds == Elems(PluginIds(list_plugin_info(TRUE, << >>)))

\* the configuration is invalid: an unknown rule id, pack, weight category
\* or plugin id, a negative weight, an unknown mode, a budget of 0 or less
InvalidConfiguration ==
    LET cfg == app_config[1]
    IN  \/ (Elems(OrElse(cfg.rule_enable, << >>)) \cup Elems(cfg.rule_disable))
              \ Elems(RuleIds(ordered_rule_specs)) # {}
        \/ (Elems(cfg.enable_packs) \cup Elems(cfg.disable_packs))
              \ known_packs(ordered_rule_specs) # {}
        \/ DOMAIN cfg.category_weights \ KNOWN_CATEGORIES # {}
        \/ \E c \in DOMAIN cfg.category_weights :
              RLt(cfg.category_weights[c], Float(0))
        \/ (Elems(cfg.plugins_enable) \cup Elems(cfg.plugins_disable))
              \ KnownPluginIds # {}
        \/ Lower(cfg.mode) \notin DOMAIN MODE_MAX_PLUGIN_COST_SECONDS
        \/ cfg.budget_seconds <= 0

\* the resolution of the configuration has not come to an end without an
\* error
NotResolved == ~(rules_pc = "returned" /\ sched_pc = "returned")

\* no line of the diff text has been parsed
NotParsed == parse_status = "reading" /\ text = << >> /\ parsed = None

\* no rule and no plugin has been evaluated, and there is no score
NothingScored ==
    /\ eval_pc = "idle"
    /\ all_findings = << >> /\ results = << >>
    /\ pc = "collect" /\ outcome = None /\ scored_files = << >>

\* C22: in a run of _prepare_score_context with an invalid configuration the
\* resolution ends with an error: the diff text is never parsed, no rule or
\* plugin is evaluated and no score comes out.
C22_ConfigErrorsFirst ==
    (app_config # None /\ InvalidConfiguration)
        => (NotResolved /\ NotParsed /\ NothingScored)

(***************************************************************************)
(* Claims about the ai-task review mode.                                   *)
(***************************************************************************)
\* the latest ai-task resolution returned
Resolved == resolved # None /\ review_pc \in {"resolved", "saved"}

\* C25: when a resolution returned the checkpoint tree T, T was saved and
\* the working tree is unchanged, the next resolution has T as base and as
\* head and an empty diff, wherever the state file lies; a first resolution
\* in a repository without commits has the empty tree as base and every
\* file of the working tree in its diff.
C25_CheckpointSequence ==
    /\ (Resolved /\ after_save # None) =>
           /\ resolved[1].base = after_save[1]
           /\ resolved[1].head = after_save[1]
           /\ resolved[1].diff_text = {}
    /\ (Resolved /\ first_run) =>
           /\ resolved[1].base = EMPTY_TREE_HASH
           /\ resolved[1].diff_text = DOMAIN snapshot

=============================================================================
